---- MODULE Spec2Model ----
(***************************************************************************)
(* A model of the yaavre AVR emulator: the status register (sreg.rs), the  *)
(* register file (registers.rs), the I/O memory with its stack primitives  *)
(* (iomem.rs) and the execution engine (emulator.rs).                      *)
(*                                                                         *)
(* Number representation.  u8/u16/u32 values are naturals reduced modulo   *)
(* their width.  A usize value (pc, jump targets) is represented by its    *)
(* signed residue: a natural n stands for n, and a negative n stands for   *)
(* 2^64 + n, the value usize::wrapping_add produces when a relative target *)
(* lies before address 0.                                                  *)
(***************************************************************************)
EXTENDS Integers, Sequences, FiniteSets, TLC

VARIABLES
    pmem_asm,         \* Emulator.pmem_asm: address -> (insn bytes, opcode, operands)
    io_mem,           \* Emulator.io_mem: the IOMemory record
    pc,               \* Emulator.pc
    call_stack,       \* Emulator.call_stack: sequence of <<sp, from, to>>
    skip_next_insn,   \* Emulator.skip_next_insn
    insn_count,       \* Emulator.insn_count
    halted,           \* the `halted` flag of the specification (no field of Emulator)
    mode,             \* which public operation is in progress: "idle", "run", "until"
    until_pc,         \* the argument of the until() call in progress
    crashed,          \* a panic has aborted the process
    overflow_checks,  \* build profile: TRUE = arithmetic overflow panics, FALSE = it wraps
    last_op,          \* the last operation performed: <<name, argument, ...>>
    ret_val,          \* the value returned by the last value-returning operation
    frames,           \* history: one record per call still awaiting its return
    rtc_reads         \* history: number of get8(0x0408) calls since IOMemory::new

vars == <<pmem_asm, io_mem, pc, call_stack, skip_next_insn, insn_count, halted,
          mode, until_pc, crashed, overflow_checks, last_op, ret_val, frames,
          rtc_reads>>

-----------------------------------------------------------------------------
(* Bounds of the model *)

\* number of instructions of a loaded listing
ProgLen == 3
\* number of successive reads of the RTC counter; the 66th overflows the u16
MaxRtcReads == 67
\* number of bytes of usart_output_log that successive writes build up
MaxLogLen == 4
\* the instruction counter is a u64; executions are cut after this many steps
MaxInsns == 6

-----------------------------------------------------------------------------
(* Integer helpers *)

U8 == 0 .. 255

Pow2(n) == 2 ^ n

\* a faulty bit test, which tests the bit above
TestBit_next_bit(x, n) == (x \div Pow2(n + 1)) % 2 = 1

\* bit n of x, as a boolean: (x & (1 << n)) != 0
TestBit(x, n) == (x \div Pow2(n)) % 2 = 1

\* u16 arithmetic as the release build performs it
Wrap16(x) == x % 65536

-----------------------------------------------------------------------------
(* sreg.rs *)

SReg_new == [c |-> FALSE, z |-> FALSE, n |-> FALSE, v |-> FALSE,
             s |-> FALSE, h |-> FALSE, t |-> FALSE, i |-> FALSE]

\* (if flag { 1 << k } else { 0 })
FlagBit(flag, k) == IF flag THEN Pow2(k) ELSE 0

RECURSIVE BitOr(_, _)
\* a | b
BitOr(a, b) ==
    IF a = 0 THEN b
    ELSE IF b = 0 THEN a
    ELSE (IF a % 2 = 1 \/ b % 2 = 1 THEN 1 ELSE 0) + 2 * BitOr(a \div 2, b \div 2)

\* a faulty as_u8, with S and H in each other's bit
as_u8_h_before_s(sr) ==
    BitOr(FlagBit(sr.c, 0),
    BitOr(FlagBit(sr.z, 1),
    BitOr(FlagBit(sr.n, 2),
    BitOr(FlagBit(sr.v, 3),
    BitOr(FlagBit(sr.h, 4),
    BitOr(FlagBit(sr.s, 5),
    BitOr(FlagBit(sr.t, 6), FlagBit(sr.i, 7))))))))

as_u8(sr) ==
    BitOr(FlagBit(sr.c, 0),
    BitOr(FlagBit(sr.z, 1),
    BitOr(FlagBit(sr.n, 2),
    BitOr(FlagBit(sr.v, 3),
    BitOr(FlagBit(sr.s, 4),
    BitOr(FlagBit(sr.h, 5),
    BitOr(FlagBit(sr.t, 6), FlagBit(sr.i, 7))))))))

set_u8(sr, val) ==
    [c |-> TestBit(val, 0), z |-> TestBit(val, 1), n |-> TestBit(val, 2),
     v |-> TestBit(val, 3), s |-> TestBit(val, 4), h |-> TestBit(val, 5),
     t |-> TestBit(val, 6), i |-> TestBit(val, 7)]

-----------------------------------------------------------------------------
(* registers.rs *)

RegisterFile_new == [i \in 0 .. 31 |-> 0]

RegisterFile_get8(r, i) == r[i]

RegisterFile_set8(r, i, val) == [r EXCEPT ![i] = val]

RegisterFile_get16(r, i) ==
    BitOr(RegisterFile_get8(r, i), RegisterFile_get8(r, i + 1) * 256)

\* a faulty set16, which stores the high byte in r[i]
RegisterFile_set16_high_first(r, i, val) ==
    RegisterFile_set8(RegisterFile_set8(r, i, (val \div 256) % 256), i + 1, val % 256)

RegisterFile_set16(r, i, val) ==
    RegisterFile_set8(RegisterFile_set8(r, i, val % 256), i + 1, (val \div 256) % 256)

-----------------------------------------------------------------------------
(* iomem.rs *)

RAMPD == 56
RAMPX == 57
RAMPY == 58
RAMPZ == 59
EIND == 60
SPL == 61
SPH == 62
SREG == 63

\* data_mem is vec![0; 1 << 22]: it is kept as the function of its non-zero
\* cells, every other cell holding 0.
IOMemory_new ==
    [regs |-> RegisterFile_new,
     sreg |-> SReg_new,
     data_mem |-> [a \in {} |-> 0],
     usart_input |-> << >>,
     usart_output_log |-> << >>,
     rtc_cnt |-> 0]

raw_get8(io, addr) ==
    IF addr \in DOMAIN io.data_mem THEN io.data_mem[addr] ELSE 0

raw_set8(io, addr, val) ==
    [io EXCEPT !.data_mem =
        IF val = 0
        THEN [a \in (DOMAIN io.data_mem) \ {addr} |-> io.data_mem[a]]
        ELSE [a \in (DOMAIN io.data_mem) \cup {addr} |->
                 IF a = addr THEN val ELSE io.data_mem[a]]]

raw_get16(io, addr) ==
    BitOr(raw_get8(io, addr + 1) * 256, raw_get8(io, addr))

raw_set16(io, addr, val) ==
    raw_set8(raw_set8(io, addr, val % 256), addr + 1, (val \div 256) % 256)

get_eind(io) == raw_get8(io, EIND)

get_full_ind(io) ==
    BitOr(get_eind(io) * 65536, RegisterFile_get16(io.regs, 30))

\* a faulty choice of the extension byte, which is RAMPZ for every pair
RampOf_always_rampz(reg) ==
    CASE reg = 26 -> RAMPZ
      [] reg = 28 -> RAMPZ
      [] reg = 30 -> RAMPZ

\* the I/O byte that extends the pointer in the register pair reg to 24 bits
RampOf(reg) ==
    CASE reg = 26 -> RAMPX
      [] reg = 28 -> RAMPY
      [] reg = 30 -> RAMPZ

\* get_full_reg and set_full_reg panic: "bad register"
full_reg_panics(reg) == reg \notin {26, 28, 30}

\* get_full_x, get_full_y, get_full_z behind the match of get_full_reg
get_full_reg(io, reg) ==
    BitOr(raw_get8(io, RampOf(reg)) * 65536, RegisterFile_get16(io.regs, reg))

\* set_full_x, set_full_y, set_full_z behind the match of set_full_reg; val is a
\* u32, and 2^32 - 1 is written -1
set_full_reg(io, reg, val) ==
    raw_set8([io EXCEPT !.regs = RegisterFile_set16(io.regs, reg, val % 65536)],
             RampOf(reg), (val \div 65536) % 256)

get_sp(io) == raw_get16(io, SPL)

set_sp(io, val) == raw_set16(io, SPL, val)

\* old_sp - 1 overflows a u16
push8_overflows(io) == get_sp(io) = 0

push8(io, val) ==
    LET old_sp == get_sp(io)
    IN  set_sp(raw_set8(io, old_sp, val), Wrap16(old_sp - 1 + 65536))

\* old_sp + 1 overflows a u16
pop8_overflows(io) == get_sp(io) = 65535

\* a faulty pop8, which reads the cell at SP before it increments SP
pop8_post_increment(io) ==
    LET old_sp == get_sp(io)
    IN  [io |-> set_sp(io, Wrap16(old_sp + 1)), val |-> raw_get8(io, old_sp)]

\* pop8 returns a byte and changes the memory: [io, val]
pop8(io) ==
    LET old_sp == get_sp(io)
        io1 == set_sp(io, Wrap16(old_sp + 1))
    IN  [io |-> io1, val |-> raw_get8(io1, get_sp(io1))]

push24_overflows(io, val) ==
    \/ push8_overflows(io)
    \/ push8_overflows(push8(io, val % 256))
    \/ push8_overflows(push8(push8(io, val % 256), (val \div 256) % 256))

\* a faulty push24, which pushes the high byte first
push24_high_first(io, val) ==
    push8(push8(push8(io, (val \div 65536) % 256), (val \div 256) % 256), val % 256)

push24(io, val) ==
    push8(push8(push8(io, val % 256), (val \div 256) % 256), (val \div 65536) % 256)

pop24_overflows(io) ==
    \/ pop8_overflows(io)
    \/ pop8_overflows(pop8(io).io)
    \/ pop8_overflows(pop8(pop8(io).io).io)

\* a faulty pop24, which takes the first byte popped as the low byte
pop24_low_first(io) ==
    LET p1 == pop8(io)
        p2 == pop8(p1.io)
        p3 == pop8(p2.io)
    IN  [io |-> p3.io,
         val |-> BitOr(BitOr(p3.val * 65536, p2.val * 256), p1.val)]

pop24(io) ==
    LET p1 == pop8(io)
        p2 == pop8(p1.io)
        p3 == pop8(p2.io)
    IN  [io |-> p3.io,
         val |-> BitOr(BitOr(p1.val * 65536, p2.val * 256), p3.val)]

\* data_mem is vec![0; 1 << 22]: indexing it at or beyond this length panics
DataMemLen == 4194304

OSC_STATUS == 81
RTC_STATUS == 1025
RTC_CNT == 1032
RTC_CNT_HI == 1033
USART_C0 == 2208
USART_C0_STATUS == 2209
SRAM_START == 8192
SRAM_LAST == 16777216

\* the arm of `match addr` in get8 that addr selects, in the order of the arms
get8_arm(addr) ==
    CASE addr = OSC_STATUS -> "osc"
      [] addr = RTC_STATUS -> "rtc_status"
      [] addr = RTC_CNT -> "rtc_cnt"
      [] addr = RTC_CNT_HI -> "rtc_cnt_hi"
      [] addr = USART_C0 -> "usart_data"
      [] addr = USART_C0_STATUS -> "usart_status"
      [] addr \in RAMPD .. SPH -> "io_reg"
      [] addr = SREG -> "sreg"
      [] addr \in SRAM_START .. SRAM_LAST -> "data"
      [] OTHER -> "_"

\* get8 panics: rtc_cnt += 1000 overflows a u16 (with overflow checks), remove(0)
\* of an empty Vec, or an index beyond data_mem
get8_panics(io, addr, checks) ==
    \/ get8_arm(addr) = "rtc_cnt" /\ checks /\ io.rtc_cnt + 1000 > 65535
    \/ get8_arm(addr) = "usart_data" /\ io.usart_input = << >>
    \/ get8_arm(addr) = "data" /\ addr >= DataMemLen

\* get8 returns a byte and may change the memory: [io, val]
\* a faulty get8, which takes the USART byte queued last
get8_usart_lifo(io, addr) ==
    CASE get8_arm(addr) = "osc" -> [io |-> io, val |-> 255]
      [] get8_arm(addr) = "rtc_status" -> [io |-> io, val |-> 0]
      [] get8_arm(addr) = "rtc_cnt" ->
            [io |-> [io EXCEPT !.rtc_cnt = Wrap16(io.rtc_cnt + 1000)],
             val |-> Wrap16(io.rtc_cnt + 1000) % 256]
      [] get8_arm(addr) = "rtc_cnt_hi" -> [io |-> io, val |-> io.rtc_cnt \div 256]
      [] get8_arm(addr) = "usart_data" ->
            [io |-> [io EXCEPT !.usart_input =
                                   SubSeq(io.usart_input, 1, Len(io.usart_input) - 1)],
             val |-> io.usart_input[Len(io.usart_input)]]
      [] get8_arm(addr) = "usart_status" ->
            [io |-> io,
             val |-> BitOr(32, IF io.usart_input = << >> THEN 0 ELSE 128)]
      [] get8_arm(addr) = "io_reg" -> [io |-> io, val |-> raw_get8(io, addr)]
      [] get8_arm(addr) = "sreg" -> [io |-> io, val |-> as_u8(io.sreg)]
      [] get8_arm(addr) = "data" -> [io |-> io, val |-> raw_get8(io, addr)]
      [] get8_arm(addr) = "_" -> [io |-> io, val |-> 0]

get8(io, addr) ==
    CASE get8_arm(addr) = "osc" -> [io |-> io, val |-> 255]
      [] get8_arm(addr) = "rtc_status" -> [io |-> io, val |-> 0]
      [] get8_arm(addr) = "rtc_cnt" ->
            [io |-> [io EXCEPT !.rtc_cnt = Wrap16(io.rtc_cnt + 1000)],
             val |-> Wrap16(io.rtc_cnt + 1000) % 256]
      [] get8_arm(addr) = "rtc_cnt_hi" -> [io |-> io, val |-> io.rtc_cnt \div 256]
      [] get8_arm(addr) = "usart_data" ->
            [io |-> [io EXCEPT !.usart_input = Tail(io.usart_input)],
             val |-> Head(io.usart_input)]
      [] get8_arm(addr) = "usart_status" ->
            [io |-> io,
             val |-> BitOr(32, IF io.usart_input = << >> THEN 0 ELSE 128)]
      [] get8_arm(addr) = "io_reg" -> [io |-> io, val |-> raw_get8(io, addr)]
      [] get8_arm(addr) = "sreg" -> [io |-> io, val |-> as_u8(io.sreg)]
      [] get8_arm(addr) = "data" -> [io |-> io, val |-> raw_get8(io, addr)]
      [] get8_arm(addr) = "_" -> [io |-> io, val |-> 0]

\* a faulty set8 match, in which every low address is a cell of data_mem
set8_arm_low_cells(addr) ==
    CASE addr = USART_C0 -> "usart_data"
      [] addr \in RAMPD .. SPH -> "io_reg"
      [] addr = SREG -> "sreg"
      [] addr \in SRAM_START .. SRAM_LAST -> "data"
      [] OTHER -> "io_reg"

\* a faulty set8 match, in which SREG is one more simple I/O register
set8_arm_sreg_as_cell(addr) ==
    CASE addr = USART_C0 -> "usart_data"
      [] addr \in RAMPD .. SREG -> "io_reg"
      [] addr \in SRAM_START .. SRAM_LAST -> "data"
      [] OTHER -> "_"

\* the arm of `match addr` in set8 that addr selects
set8_arm(addr) ==
    CASE addr = USART_C0 -> "usart_data"
      [] addr \in RAMPD .. SPH -> "io_reg"
      [] addr = SREG -> "sreg"
      [] addr \in SRAM_START .. SRAM_LAST -> "data"
      [] OTHER -> "_"

\* set8 panics: an index beyond data_mem
set8_panics(io, addr, val) == set8_arm(addr) = "data" /\ addr >= DataMemLen

\* a faulty set8, which logs only the bytes it would print
set8_log_printable_only(io, addr, val) ==
    CASE set8_arm(addr) = "usart_data" ->
            IF val \in 33 .. 126 \cup {9, 10, 12, 13, 32}
            THEN [io EXCEPT !.usart_output_log = Append(io.usart_output_log, val)]
            ELSE io
      [] set8_arm(addr) = "io_reg" -> raw_set8(io, addr, val)
      [] set8_arm(addr) = "sreg" -> [io EXCEPT !.sreg = set_u8(io.sreg, val)]
      [] set8_arm(addr) = "data" -> raw_set8(io, addr, val)
      [] set8_arm(addr) = "_" -> io

set8(io, addr, val) ==
    CASE set8_arm(addr) = "usart_data" ->
            [io EXCEPT !.usart_output_log = Append(io.usart_output_log, val)]
      [] set8_arm(addr) = "io_reg" -> raw_set8(io, addr, val)
      [] set8_arm(addr) = "sreg" -> [io EXCEPT !.sreg = set_u8(io.sreg, val)]
      [] set8_arm(addr) = "data" -> raw_set8(io, addr, val)
      [] set8_arm(addr) = "_" -> io

\* get16 evaluates get8(addr + 1) first: it is the left operand of `|`
get16_panics(io, addr, checks) ==
    \/ get8_panics(io, addr + 1, checks)
    \/ get8_panics(get8(io, addr + 1).io, addr, checks)

\* get16 returns a u16 and may change the memory: [io, val]
get16(io, addr) ==
    LET hi == get8(io, addr + 1)
        lo == get8(hi.io, addr)
    IN  [io |-> lo.io, val |-> BitOr(hi.val * 256, lo.val)]

set16_panics(io, addr, val) ==
    \/ set8_panics(io, addr, val % 256)
    \/ set8_panics(set8(io, addr, val % 256), addr + 1, (val \div 256) % 256)

set16(io, addr, val) ==
    set8(set8(io, addr, val % 256), addr + 1, (val \div 256) % 256)

-----------------------------------------------------------------------------
(* emulator.rs: operands and the listing loader *)

Reg(num) == <<"Reg", num>>
Imm(x) == <<"Imm", x>>
MemAccess(reg, ofs, postinc, predec) == <<"MemAccess", reg, ofs, postinc, predec>>

\* the variant names of a Vec<Operand>, as the slice patterns of do_opcode match them
Kinds(operands) == [k \in 1 .. Len(operands) |-> operands[k][1]]

\* An operand string of the listing is <<first character, number after it>>:
\* "r16" is <<"r", 16>>, ".-2" is <<".", -2>>, "0x10" and "16" are <<"0", 16>>.
\* A memory operand is its first character and the four groups MEM_ACCESS_REGEX
\* captures, "" or 0 for a group that did not match: "-X" is
\* <<"-", "-", "X", "", 0>>, "Y+" is <<"Y", "", "Y", "+", 0>>, "Z+5" is
\* <<"Z", "", "Z", "", 5>>.
parse_operand(op_str, next_pc) ==
    CASE op_str[1] = "r" -> Reg(op_str[2])
      [] op_str[1] = "." -> Imm(next_pc + op_str[2])
      [] op_str[1] = "0" -> Imm(op_str[2])
      [] op_str[1] \in {"-", "X", "Y", "Z"} ->
            MemAccess(CASE op_str[3] = "X" -> 26
                        [] op_str[3] = "Y" -> 28
                        [] op_str[3] = "Z" -> 30,
                      op_str[5], op_str[4] = "+", op_str[2] = "-")

\* A listing is a sequence of lines [addr, len, opcode, op_strs]; len is the
\* number of instruction bytes printed on the line.
load_disasm(listing) ==
    [addr \in {listing[k].addr : k \in 1 .. Len(listing)} |->
        LET line == listing[CHOOSE k \in 1 .. Len(listing) :
                               /\ listing[k].addr = addr
                               /\ \A j \in k + 1 .. Len(listing) : listing[j].addr # addr]
            next_pc == addr + line.len
        IN  [len |-> line.len,
             opcode |-> line.opcode,
             operands |-> [k \in 1 .. Len(line.op_strs) |->
                              parse_operand(line.op_strs[k], next_pc)]]]

-----------------------------------------------------------------------------
(* emulator.rs: the execution engine.  The handlers work on the record      *)
(* m = [io_mem, pc, call_stack, skip_next_insn, insn_count] of the Emulator *)
(* fields an instruction can read or write.                                 *)

Emulator_new ==
    [io_mem |-> IOMemory_new,
     pc |-> 0,
     call_stack |-> << >>,
     skip_next_insn |-> FALSE,
     insn_count |-> 0]

get_reg8(m, r) == RegisterFile_get8(m.io_mem.regs, r)

set_reg8(m, r, val) ==
    [m EXCEPT !.io_mem.regs = RegisterFile_set8(m.io_mem.regs, r, val)]

\* a faulty set_sreg_for_bits, which takes S from N and the V of before
set_sreg_for_bits_stale_s(sreg, r_val) ==
    [sreg EXCEPT !.v = FALSE,
                 !.n = TestBit(r_val, 7),
                 !.z = r_val = 0,
                 !.s = TestBit(r_val, 7) # sreg.v]

\* set_sreg_for_bits: the flags after a logical operation; C, H, T and I are kept
set_sreg_for_bits(sreg, r_val) ==
    [sreg EXCEPT !.v = FALSE,
                 !.n = TestBit(r_val, 7),
                 !.z = r_val = 0,
                 !.s = TestBit(r_val, 7)]

\* a faulty table of branch conditions, with those of brge and brlt exchanged
branch_taken_signed_swapped(sreg, opcode) ==
    CASE opcode = "breq" -> sreg.z
      [] opcode = "brne" -> ~sreg.z
      [] opcode = "brcc" -> ~sreg.c
      [] opcode = "brcs" -> sreg.c
      [] opcode = "brge" -> sreg.n # sreg.v
      [] opcode = "brlt" -> ~(sreg.n # sreg.v)
      [] opcode = "brmi" -> sreg.n
      [] opcode = "brpl" -> ~sreg.n
      [] opcode = "brtc" -> ~sreg.t
      [] opcode = "brts" -> sreg.t

\* the condition of a conditional branch on the flags
branch_taken(sreg, opcode) ==
    CASE opcode = "breq" -> sreg.z
      [] opcode = "brne" -> ~sreg.z
      [] opcode = "brcc" -> ~sreg.c
      [] opcode = "brcs" -> sreg.c
      [] opcode = "brge" -> ~(sreg.n # sreg.v)
      [] opcode = "brlt" -> sreg.n # sreg.v
      [] opcode = "brmi" -> sreg.n
      [] opcode = "brpl" -> ~sreg.n
      [] opcode = "brtc" -> ~sreg.t
      [] opcode = "brts" -> sreg.t

\* the byte a ^ b
BitXor(a, b) ==
    LET x[k \in 0 .. 8] ==
            IF k = 8 THEN 0
            ELSE (IF TestBit(a, k) # TestBit(b, k) THEN Pow2(k) ELSE 0) + x[k + 1]
    IN  x[0]

\* the handler of eor after the xor: set_reg8, then set_sreg_for_bits
do_bits(m, rd, r_val) ==
    [set_reg8(m, rd, r_val) EXCEPT !.io_mem.sreg = set_sreg_for_bits(@, r_val)]

\* the byte a & b
BitAnd(a, b) ==
    LET x[k \in 0 .. 8] ==
            IF k = 8 THEN 0
            ELSE (IF TestBit(a, k) /\ TestBit(b, k) THEN Pow2(k) ELSE 0) + x[k + 1]
    IN  x[0]

\* set_sreg_for_shift: v = n ^ c and s = n ^ v, of the new n, c and v
set_sreg_for_shift(sreg, val_before, val_after) ==
    LET c == TestBit(val_before, 0)
        n == TestBit(val_after, 7)
        v == n # c
    IN  [sreg EXCEPT !.c = c, !.n = n, !.z = val_after = 0, !.v = v, !.s = n # v]

\* the handlers of lsr, asr, ror after the shift: set_sreg_for_shift, then set_reg8
do_shift(m, rd, val_before, val_after) ==
    [set_reg8(m, rd, val_after) EXCEPT
        !.io_mem.sreg = set_sreg_for_shift(@, val_before, val_after)]

\* the handlers of adiw (sub = FALSE) and sbiw (sub = TRUE): wrapping_add or
\* wrapping_sub on the pair, then the flags
do_word(m, rd, k, sub) ==
    LET rdw_val == RegisterFile_get16(m.io_mem.regs, rd)
        r_val == Wrap16(IF sub THEN rdw_val - (k % 65536) + 65536 ELSE rdw_val + (k % 65536))
        rdw15 == TestBit(rdw_val, 15)
        r15 == TestBit(r_val, 15)
        v == IF sub THEN rdw15 /\ ~r15 ELSE ~rdw15 /\ r15
    IN  [m EXCEPT !.io_mem.regs = RegisterFile_set16(@, rd, r_val),
                  !.io_mem.sreg = [@ EXCEPT !.v = v,
                                            !.n = r15,
                                            !.z = r_val = 0,
                                            !.c = IF sub THEN r15 /\ ~rdw15
                                                  ELSE ~r15 /\ rdw15,
                                            !.s = r15 # v]]

\* the handlers of inc (by = 1, v_at = 0x7f) and dec (by = 255, v_at = 0x80)
do_inc_dec(m, rd, by, v_at) ==
    LET rd_val == get_reg8(m, rd)
        r_val == (rd_val + by) % 256
        v == rd_val = v_at
        n == TestBit(r_val, 7)
    IN  [set_reg8(m, rd, r_val) EXCEPT
            !.io_mem.sreg = [@ EXCEPT !.v = v, !.n = n, !.z = r_val = 0, !.s = n # v]]

\* the handler of com: r_val = 0xff - rd_val
do_com(m, rd) ==
    LET r_val == 255 - get_reg8(m, rd)
        n == TestBit(r_val, 7)
    IN  [set_reg8(m, rd, r_val) EXCEPT
            !.io_mem.sreg = [@ EXCEPT !.v = FALSE, !.n = n, !.z = r_val = 0,
                                      !.c = TRUE, !.s = n # FALSE]]

\* the handler of mul: the product goes to r1:r0, and only C and Z change
do_mul(m, rd, rr) ==
    LET r_val == get_reg8(m, rd) * get_reg8(m, rr)
    IN  [m EXCEPT !.io_mem.regs = RegisterFile_set16(@, 0, r_val),
                  !.io_mem.sreg = [@ EXCEPT !.c = TestBit(r_val, 15), !.z = r_val = 0]]

\* the flag each clX / seX arm assigns, and the value it assigns
FlagArms ==
    [o \in {"clc", "clh", "cli", "cln", "cls", "clt", "clv", "clz",
            "sec", "seh", "sei", "sen", "ses", "set", "sev", "sez"} |->
        [flag |-> CASE o \in {"clc", "sec"} -> "c" [] o \in {"clh", "seh"} -> "h"
                    [] o \in {"cli", "sei"} -> "i" [] o \in {"cln", "sen"} -> "n"
                    [] o \in {"cls", "ses"} -> "s" [] o \in {"clt", "set"} -> "t"
                    [] o \in {"clv", "sev"} -> "v" [] o \in {"clz", "sez"} -> "z",
         val |-> o \in {"sec", "seh", "sei", "sen", "ses", "set", "sev", "sez"}]]

\* the handler of neg: r_val = (-(rd_val as i8)) as u8, then the flags
do_neg(m, rd, rd_val, r_val) ==
    [set_reg8(m, rd, r_val) EXCEPT
        !.io_mem.sreg = [@ EXCEPT !.h = TestBit(r_val, 6) /\ ~TestBit(rd_val, 6),
                                  !.v = r_val = 128,
                                  !.n = TestBit(r_val, 7),
                                  !.z = r_val = 0,
                                  !.c = r_val # 0,
                                  !.s = TestBit(r_val, 7) # (r_val = 128)]]

\* the base address of a ld, ldd, st or std with memory operand op: the 24-bit
\* pointer, less one with pre-decrement.  base_addr is a u32: without overflow
\* checks 0 - 1 wraps to 2^32 - 1, which is written -1.
mem_base(m, op) == get_full_reg(m.io_mem, op[2]) - (IF op[5] THEN 1 ELSE 0)

\* base_addr -= 1 overflows
mem_base_overflows(m, op) == op[5] /\ get_full_reg(m.io_mem, op[2]) = 0

\* (base_addr as usize).wrapping_add(ofs as usize)
mem_addr(m, op) == mem_base(m, op) + op[3]

\* if postinc { base_addr += 1 }; if predec || postinc { set_full_reg(..) }
write_back(io, op, base_addr) ==
    IF op[4] \/ op[5]
    THEN set_full_reg(io, op[2], base_addr + (IF op[4] THEN 1 ELSE 0))
    ELSE io

\* the handler of ld and ldd
do_ld(m, rd, op) ==
    [m EXCEPT !.io_mem =
        write_back([get8(m.io_mem, mem_addr(m, op)).io EXCEPT
                       !.regs = RegisterFile_set8(m.io_mem.regs, rd,
                                                  get8(m.io_mem, mem_addr(m, op)).val)],
                   op, mem_base(m, op))]

\* the handler of st and std
do_st(m, op, rr) ==
    [m EXCEPT !.io_mem =
        write_back(set8(m.io_mem, mem_addr(m, op), get_reg8(m, rr)), op, mem_base(m, op))]

\* set_sreg_for_add: the flags after an addition; T and I are kept
set_sreg_for_add(sreg, rd_val, rr_val, r_val) ==
    LET rd3 == TestBit(rd_val, 3)
        rr3 == TestBit(rr_val, 3)
        r3 == TestBit(r_val, 3)
        rd7 == TestBit(rd_val, 7)
        rr7 == TestBit(rr_val, 7)
        r7 == TestBit(r_val, 7)
        v == (rd7 /\ rr7 /\ ~r7) \/ (~rd7 /\ ~rr7 /\ r7)
    IN  [sreg EXCEPT !.h = (rd3 /\ rr3) \/ (rr3 /\ ~r3) \/ (~r3 /\ rd3),
                     !.v = v,
                     !.n = r7,
                     !.z = r_val = 0,
                     !.c = (rd7 /\ rr7) \/ (rr7 /\ ~r7) \/ (~r7 /\ rd7),
                     !.s = r7 # v]

\* a faulty set_sreg_for_sub, which sets Z from the result alone
set_sreg_for_sub_fresh_z(sreg, rd_val, rr_val, r_val, use_prev) ==
    LET rd3 == TestBit(rd_val, 3)
        rr3 == TestBit(rr_val, 3)
        r3 == TestBit(r_val, 3)
        rd7 == TestBit(rd_val, 7)
        rr7 == TestBit(rr_val, 7)
        r7 == TestBit(r_val, 7)
        v == (rd7 /\ ~rr7 /\ ~r7) \/ (~rd7 /\ rr7 /\ r7)
    IN  [sreg EXCEPT !.h = (~rd3 /\ rr3) \/ (rr3 /\ r3) \/ (r3 /\ ~rd3),
                     !.v = v,
                     !.n = r7,
                     !.z = r_val = 0,
                     !.c = (~rd7 /\ rr7) \/ (rr7 /\ r7) \/ (r7 /\ ~rd7),
                     !.s = r7 # v]

\* set_sreg_for_sub: the flags after a subtraction; with use_prev, Z can only
\* stay set
set_sreg_for_sub(sreg, rd_val, rr_val, r_val, use_prev) ==
    LET rd3 == TestBit(rd_val, 3)
        rr3 == TestBit(rr_val, 3)
        r3 == TestBit(r_val, 3)
        rd7 == TestBit(rd_val, 7)
        rr7 == TestBit(rr_val, 7)
        r7 == TestBit(r_val, 7)
        v == (rd7 /\ ~rr7 /\ ~r7) \/ (~rd7 /\ rr7 /\ r7)
    IN  [sreg EXCEPT !.h = (~rd3 /\ rr3) \/ (rr3 /\ r3) \/ (r3 /\ ~rd3),
                     !.v = v,
                     !.n = r7,
                     !.z = IF use_prev THEN r_val = 0 /\ sreg.z ELSE r_val = 0,
                     !.c = (~rd7 /\ rr7) \/ (rr7 /\ r7) \/ (r7 /\ ~rd7),
                     !.s = r7 # v]

get_carry(m) == IF m.io_mem.sreg.c THEN 1 ELSE 0

\* a faulty add handler, which drops the carry
do_add_no_carry(m, rd, rd_val, rr_val, carry) ==
    set_reg8([m EXCEPT !.io_mem.sreg =
                  set_sreg_for_add(@, rd_val, rr_val, (rd_val + rr_val) % 256)],
             rd, (rd_val + rr_val) % 256)

\* the handlers of add and adc, which differ in the carry they add
do_add(m, rd, rd_val, rr_val, carry) ==
    set_reg8([m EXCEPT !.io_mem.sreg =
                  set_sreg_for_add(@, rd_val, rr_val, (rd_val + rr_val + carry) % 256)],
             rd, (rd_val + rr_val + carry) % 256)

\* a faulty subtract handler, which stores the result of a compare too
do_sub_always_store(m, rd, rd_val, rr_val, carry, use_prev, store) ==
    set_reg8([m EXCEPT !.io_mem.sreg =
                  set_sreg_for_sub(@, rd_val, rr_val,
                                   (rd_val - rr_val - carry + 512) % 256, use_prev)],
             rd, (rd_val - rr_val - carry + 512) % 256)

\* the handlers of cp, cpi, cpc, sub, subi, sbc and sbci, which differ in the
\* carry they subtract, in use_prev and in whether they store the result
do_sub(m, rd, rd_val, rr_val, carry, use_prev, store) ==
    IF store
    THEN set_reg8([m EXCEPT !.io_mem.sreg =
                       set_sreg_for_sub(@, rd_val, rr_val,
                                        (rd_val - rr_val - carry + 512) % 256, use_prev)],
                  rd, (rd_val - rr_val - carry + 512) % 256)
    ELSE [m EXCEPT !.io_mem.sreg =
              set_sreg_for_sub(@, rd_val, rr_val,
                               (rd_val - rr_val - carry + 512) % 256, use_prev)]

\* ret_addr is below 2^25 here, so the cast `as u32` keeps it; push24 stores
\* its low 24 bits
push_ret_addr(m, ret_addr, call_tgt) ==
    LET frame == <<get_sp(m.io_mem), m.pc, call_tgt>>
    IN  [m EXCEPT !.call_stack = Append(m.call_stack, frame),
                  !.io_mem = push24(m.io_mem, ret_addr \div 2)]

RECURSIVE prune_call_stack_below(_, _)
\* a faulty prune_call_stack, which compares with < and so keeps the frame of
\* the call that is returning
prune_call_stack_below(cs, sp) ==
    IF cs # << >> /\ cs[Len(cs)][1] < sp
    THEN prune_call_stack_below(SubSeq(cs, 1, Len(cs) - 1), sp)
    ELSE cs

RECURSIVE prune_call_stack(_, _)
\* while !call_stack.is_empty() && call_stack.last().0 <= sp { call_stack.pop() }
prune_call_stack(cs, sp) ==
    IF cs # << >> /\ cs[Len(cs)][1] <= sp
    THEN prune_call_stack(SubSeq(cs, 1, Len(cs) - 1), sp)
    ELSE cs

\* a faulty pop_ret_addr, which returns to the call site recorded in the newest
\* shadow frame when there is one
pop_ret_addr_from_shadow(m) ==
    LET p == pop24(m.io_mem)
    IN  [m |-> [m EXCEPT !.io_mem = p.io,
                         !.call_stack = prune_call_stack(m.call_stack, get_sp(p.io))],
         val |-> IF m.call_stack # << >> THEN m.call_stack[Len(m.call_stack)][2]
                 ELSE p.val * 2]

\* returns [m, val]
pop_ret_addr(m) ==
    LET p == pop24(m.io_mem)
    IN  [m |-> [m EXCEPT !.io_mem = p.io,
                         !.call_stack = prune_call_stack(m.call_stack, get_sp(p.io))],
         val |-> p.val * 2]

\* returns [m, next_pc]
do_call(m, next_pc, call_tgt) ==
    [m |-> push_ret_addr(m, next_pc, call_tgt), next_pc |-> call_tgt]

CallOpcodes == {"call", "rcall", "eicall"}
BranchOpcodes ==
    {"breq", "brne", "brcc", "brcs", "brge", "brlt", "brmi", "brpl", "brtc", "brts"}
RetOpcodes == {"ret", "reti"}

\* a faulty match, whose default arm does nothing, as the arm of nop
match_arm_default_nop(opcode, operands) ==
    LET ks == Kinds(operands)
    IN  CASE opcode \in {"nop", "eijmp", "eicall", "ret", "reti"} \cup DOMAIN FlagArms
               /\ ks = << >> -> opcode
          [] opcode \in {"jmp", "rjmp", "call", "rcall"} /\ ks = <<"Imm">> -> opcode
          [] opcode \in BranchOpcodes /\ ks = <<"Imm">> -> opcode
          [] opcode \in {"push", "pop", "clr", "ser", "neg", "lsr", "asr", "ror", "inc",
                         "dec", "com"}
               /\ ks = <<"Reg">> -> opcode
          [] opcode \in {"sbrc", "sbrs", "ldi", "cpi", "subi", "sbci", "in", "lds",
                         "andi", "ori", "adiw", "sbiw"}
               /\ ks = <<"Reg", "Imm">> -> opcode
          [] opcode \in {"cpse", "add", "adc", "cp", "cpc", "sub", "sbc", "eor", "movw",
                         "and", "or", "mul"}
               /\ ks = <<"Reg", "Reg">> -> opcode
          [] opcode \in {"ld", "ldd"} /\ ks = <<"Reg", "MemAccess">> -> opcode
          [] opcode \in {"st", "std"} /\ ks = <<"MemAccess", "Reg">> -> opcode
          [] opcode \in {"out", "sts"} /\ ks = <<"Imm", "Reg">> -> opcode
          [] OTHER -> "nop"

\* the match arm of do_opcode that (opcode, operands) selects; "_" is the default arm
match_arm(opcode, operands) ==
    LET ks == Kinds(operands)
    IN  CASE opcode \in {"nop", "eijmp", "eicall", "ret", "reti"} \cup DOMAIN FlagArms
               /\ ks = << >> -> opcode
          [] opcode \in {"jmp", "rjmp", "call", "rcall"} /\ ks = <<"Imm">> -> opcode
          [] opcode \in BranchOpcodes /\ ks = <<"Imm">> -> opcode
          [] opcode \in {"push", "pop", "clr", "ser", "neg", "lsr", "asr", "ror", "inc",
                         "dec", "com"}
               /\ ks = <<"Reg">> -> opcode
          [] opcode \in {"sbrc", "sbrs", "ldi", "cpi", "subi", "sbci", "in", "lds",
                         "andi", "ori", "adiw", "sbiw"}
               /\ ks = <<"Reg", "Imm">> -> opcode
          [] opcode \in {"cpse", "add", "adc", "cp", "cpc", "sub", "sbc", "eor", "movw",
                         "and", "or", "mul"}
               /\ ks = <<"Reg", "Reg">> -> opcode
          [] opcode \in {"ld", "ldd"} /\ ks = <<"Reg", "MemAccess">> -> opcode
          [] opcode \in {"st", "std"} /\ ks = <<"MemAccess", "Reg">> -> opcode
          [] opcode \in {"out", "sts"} /\ ks = <<"Imm", "Reg">> -> opcode
          [] OTHER -> "_"

\* whether the handler panics: the default arm, or an arithmetic overflow in a
\* build with overflow checks
arm_panics(m, arm, operands, next_pc, checks) ==
        \/ arm = "_"
        \/ /\ checks
           /\ \/ arm \in CallOpcodes /\ push24_overflows(m.io_mem, next_pc \div 2)
              \/ arm \in RetOpcodes /\ pop24_overflows(m.io_mem)
              \/ arm = "push" /\ push8_overflows(m.io_mem)
              \/ arm = "pop" /\ pop8_overflows(m.io_mem)
        \/ arm = "neg" /\ checks /\ get_reg8(m, operands[1][2]) = 128
        \/ /\ arm \in {"ld", "ldd"}
           /\ \/ full_reg_panics(operands[2][2])
              \/ checks /\ mem_base_overflows(m, operands[2])
              \/ get8_panics(m.io_mem, mem_addr(m, operands[2]), checks)
        \/ /\ arm \in {"st", "std"}
           /\ \/ full_reg_panics(operands[1][2])
              \/ checks /\ mem_base_overflows(m, operands[1])
              \/ set8_panics(m.io_mem, mem_addr(m, operands[1]),
                             get_reg8(m, operands[2][2]))
        \/ arm \in {"in", "lds"} /\ get8_panics(m.io_mem, operands[2][2], checks)
        \/ /\ arm \in {"out", "sts"}
           /\ set8_panics(m.io_mem, operands[1][2], get_reg8(m, operands[2][2]))

do_opcode_panics(m, opcode, operands, next_pc, checks) ==
    arm_panics(m, match_arm(opcode, operands), operands, next_pc, checks)

\* the body of the match arm `arm` of do_opcode; returns [m, next_pc]
do_arm(m, arm, operands, next_pc) ==
        CASE arm = "nop" -> [m |-> m, next_pc |-> next_pc]
          [] arm = "jmp" -> [m |-> m, next_pc |-> operands[1][2]]
          [] arm = "rjmp" -> [m |-> m, next_pc |-> operands[1][2]]
          [] arm = "eijmp" -> [m |-> m, next_pc |-> get_full_ind(m.io_mem) * 2]
          [] arm = "call" -> do_call(m, next_pc, operands[1][2])
          [] arm = "rcall" -> do_call(m, next_pc, operands[1][2])
          [] arm = "eicall" -> do_call(m, next_pc, get_full_ind(m.io_mem) * 2)
          [] arm = "ret" ->
                LET p == pop_ret_addr(m)
                IN  [m |-> p.m, next_pc |-> p.val]
          [] arm = "reti" ->
                LET p == pop_ret_addr([m EXCEPT !.io_mem.sreg.i = TRUE])
                IN  [m |-> p.m, next_pc |-> p.val]
          [] arm = "push" ->
                [m |-> [m EXCEPT !.io_mem = push8(m.io_mem, get_reg8(m, operands[1][2]))],
                 next_pc |-> next_pc]
          [] arm = "pop" ->
                LET p == pop8(m.io_mem)
                IN  [m |-> set_reg8([m EXCEPT !.io_mem = p.io], operands[1][2], p.val),
                     next_pc |-> next_pc]
          [] arm = "sbrc" ->
                [m |-> [m EXCEPT !.skip_next_insn =
                            ~TestBit(get_reg8(m, operands[1][2]), operands[2][2])],
                 next_pc |-> next_pc]
          [] arm = "sbrs" ->
                [m |-> [m EXCEPT !.skip_next_insn =
                            TestBit(get_reg8(m, operands[1][2]), operands[2][2])],
                 next_pc |-> next_pc]
          [] arm = "cpse" ->
                [m |-> [m EXCEPT !.skip_next_insn =
                            get_reg8(m, operands[1][2]) = get_reg8(m, operands[2][2])],
                 next_pc |-> next_pc]
          [] arm \in BranchOpcodes ->
                [m |-> m,
                 next_pc |-> IF branch_taken(m.io_mem.sreg, arm)
                             THEN operands[1][2] ELSE next_pc]
          [] arm = "clr" -> [m |-> set_reg8(m, operands[1][2], 0), next_pc |-> next_pc]
          [] arm = "ser" -> [m |-> set_reg8(m, operands[1][2], 255), next_pc |-> next_pc]
          [] arm = "movw" ->
                [m |-> [m EXCEPT !.io_mem.regs =
                            RegisterFile_set16(@, operands[1][2],
                                               RegisterFile_get16(@, operands[2][2]))],
                 next_pc |-> next_pc]
          [] arm = "eor" ->
                [m |-> do_bits(m, operands[1][2],
                               BitXor(get_reg8(m, operands[1][2]),
                                      get_reg8(m, operands[2][2]))),
                 next_pc |-> next_pc]
          [] arm = "neg" ->
                [m |-> do_neg(m, operands[1][2], get_reg8(m, operands[1][2]),
                              (256 - get_reg8(m, operands[1][2])) % 256),
                 next_pc |-> next_pc]
          [] arm \in {"ld", "ldd"} ->
                [m |-> do_ld(m, operands[1][2], operands[2]), next_pc |-> next_pc]
          [] arm \in {"st", "std"} ->
                [m |-> do_st(m, operands[1], operands[2][2]), next_pc |-> next_pc]
          [] arm \in DOMAIN FlagArms ->
                [m |-> [m EXCEPT !.io_mem.sreg[FlagArms[arm].flag] = FlagArms[arm].val],
                 next_pc |-> next_pc]
          [] arm \in {"and", "andi"} ->
                [m |-> do_bits(m, operands[1][2],
                               BitAnd(get_reg8(m, operands[1][2]),
                                      IF arm = "and" THEN get_reg8(m, operands[2][2])
                                      ELSE operands[2][2] % 256)),
                 next_pc |-> next_pc]
          [] arm \in {"or", "ori"} ->
                [m |-> do_bits(m, operands[1][2],
                               BitOr(get_reg8(m, operands[1][2]),
                                     IF arm = "or" THEN get_reg8(m, operands[2][2])
                                     ELSE operands[2][2] % 256)),
                 next_pc |-> next_pc]
          [] arm = "lsr" ->
                [m |-> do_shift(m, operands[1][2], get_reg8(m, operands[1][2]),
                                get_reg8(m, operands[1][2]) \div 2),
                 next_pc |-> next_pc]
          [] arm = "asr" ->
                [m |-> do_shift(m, operands[1][2], get_reg8(m, operands[1][2]),
                                (IF get_reg8(m, operands[1][2]) >= 128 THEN 128 ELSE 0)
                                    + get_reg8(m, operands[1][2]) \div 2),
                 next_pc |-> next_pc]
          [] arm = "ror" ->
                [m |-> do_shift(m, operands[1][2], get_reg8(m, operands[1][2]),
                                (IF m.io_mem.sreg.c THEN 128 ELSE 0)
                                    + get_reg8(m, operands[1][2]) \div 2),
                 next_pc |-> next_pc]
          [] arm = "adiw" ->
                [m |-> do_word(m, operands[1][2], operands[2][2], FALSE),
                 next_pc |-> next_pc]
          [] arm = "sbiw" ->
                [m |-> do_word(m, operands[1][2], operands[2][2], TRUE),
                 next_pc |-> next_pc]
          [] arm = "inc" -> [m |-> do_inc_dec(m, operands[1][2], 1, 127), next_pc |-> next_pc]
          [] arm = "dec" -> [m |-> do_inc_dec(m, operands[1][2], 255, 128), next_pc |-> next_pc]
          [] arm = "com" -> [m |-> do_com(m, operands[1][2]), next_pc |-> next_pc]
          [] arm = "mul" ->
                [m |-> do_mul(m, operands[1][2], operands[2][2]), next_pc |-> next_pc]
          [] arm = "ldi" ->
                [m |-> set_reg8(m, operands[1][2], operands[2][2] % 256),
                 next_pc |-> next_pc]
          [] arm = "add" ->
                [m |-> do_add(m, operands[1][2], get_reg8(m, operands[1][2]),
                              get_reg8(m, operands[2][2]), 0),
                 next_pc |-> next_pc]
          [] arm = "adc" ->
                [m |-> do_add(m, operands[1][2], get_reg8(m, operands[1][2]),
                              get_reg8(m, operands[2][2]), get_carry(m)),
                 next_pc |-> next_pc]
          [] arm = "cp" ->
                [m |-> do_sub(m, operands[1][2], get_reg8(m, operands[1][2]),
                              get_reg8(m, operands[2][2]), 0, FALSE, FALSE),
                 next_pc |-> next_pc]
          [] arm = "cpi" ->
                [m |-> do_sub(m, operands[1][2], get_reg8(m, operands[1][2]),
                              operands[2][2] % 256, 0, FALSE, FALSE),
                 next_pc |-> next_pc]
          [] arm = "cpc" ->
                [m |-> do_sub(m, operands[1][2], get_reg8(m, operands[1][2]),
                              get_reg8(m, operands[2][2]), get_carry(m), TRUE, FALSE),
                 next_pc |-> next_pc]
          [] arm = "sub" ->
                [m |-> do_sub(m, operands[1][2], get_reg8(m, operands[1][2]),
                              get_reg8(m, operands[2][2]), 0, FALSE, TRUE),
                 next_pc |-> next_pc]
          [] arm = "subi" ->
                [m |-> do_sub(m, operands[1][2], get_reg8(m, operands[1][2]),
                              operands[2][2] % 256, 0, FALSE, TRUE),
                 next_pc |-> next_pc]
          [] arm = "sbc" ->
                [m |-> do_sub(m, operands[1][2], get_reg8(m, operands[1][2]),
                              get_reg8(m, operands[2][2]), get_carry(m), TRUE, TRUE),
                 next_pc |-> next_pc]
          [] arm = "sbci" ->
                [m |-> do_sub(m, operands[1][2], get_reg8(m, operands[1][2]),
                              operands[2][2] % 256, get_carry(m), TRUE, TRUE),
                 next_pc |-> next_pc]
          [] arm \in {"in", "lds"} ->
                [m |-> set_reg8([m EXCEPT !.io_mem = get8(m.io_mem, operands[2][2]).io],
                                operands[1][2], get8(m.io_mem, operands[2][2]).val),
                 next_pc |-> next_pc]
          [] arm \in {"out", "sts"} ->
                [m |-> [m EXCEPT !.io_mem = set8(m.io_mem, operands[1][2],
                                                 get_reg8(m, operands[2][2]))],
                 next_pc |-> next_pc]

\* returns [m, next_pc]
do_opcode(m, opcode, operands, next_pc) ==
    do_arm(m, match_arm(opcode, operands), operands, next_pc)

\* _step panics: no listing line at pc (HashMap index), or the handler panics
step_panics(m, prog, checks) ==
    \/ m.pc \notin DOMAIN prog
    \/ /\ ~m.skip_next_insn
       /\ do_opcode_panics(m, prog[m.pc].opcode, prog[m.pc].operands,
                           m.pc + prog[m.pc].len, checks)

\* _step after the handler: self.pc = next_pc; self.insn_count += 1
end_step(r) == [r.m EXCEPT !.pc = r.next_pc, !.insn_count = r.m.insn_count + 1]

\* a faulty _step, which moves PC on by one word when it skips
step_result_skip_one_word(m, prog) ==
    end_step(IF m.skip_next_insn
             THEN [m |-> [m EXCEPT !.skip_next_insn = FALSE], next_pc |-> m.pc + 2]
             ELSE do_opcode(m, prog[m.pc].opcode, prog[m.pc].operands,
                            m.pc + prog[m.pc].len))

\* _step
step_result(m, prog) ==
    end_step(IF m.skip_next_insn
             THEN [m |-> [m EXCEPT !.skip_next_insn = FALSE],
                   next_pc |-> m.pc + prog[m.pc].len]
             ELSE do_opcode(m, prog[m.pc].opcode, prog[m.pc].operands,
                            m.pc + prog[m.pc].len))

-----------------------------------------------------------------------------
(* Listings *)

RECURSIVE Layout(_, _, _)
\* the lines of a listing whose instructions follow each other from address addr
Layout(templates, k, addr) ==
    IF k > Len(templates) THEN << >>
    ELSE <<[addr |-> addr, len |-> templates[k].len,
            opcode |-> templates[k].opcode, op_strs |-> templates[k].op_strs]>>
         \o Layout(templates, k + 1, addr + templates[k].len)

Line(len, opcode, op_strs) == [len |-> len, opcode |-> opcode, op_strs |-> op_strs]

\* instructions of the control-flow listings
ControlLines ==
    { Line(2, "rjmp", << <<".", -2>> >>),
      Line(2, "rjmp", << <<".", -4>> >>),
      Line(4, "jmp", << <<"0", 0>> >>),
      Line(4, "call", << <<"0", 4>> >>),
      Line(2, "ret", << >>),
      Line(2, "sei", << >>),
      Line(2, "sbrc", << <<"r", 0>>, <<"0", 0>> >>),
      Line(2, "sbrs", << <<"r", 0>>, <<"0", 0>> >>) }

\* instructions of the call/return listings
CallLines ==
    { Line(4, "call", << <<"0", 4>> >>),
      Line(2, "rcall", << <<".", 0>> >>),
      Line(2, "rcall", << <<".", 2>> >>),
      Line(2, "eicall", << >>),
      Line(2, "ret", << >>),
      Line(2, "reti", << >>),
      Line(2, "push", << <<"r", 0>> >>) }

Listings(lines) == {Layout(t, 1, 0) : t \in [1 .. ProgLen -> lines]}

\* arguments of until(): the reset address and an address inside the listing
UntilTargets == {0, 4}

\* stack pointers the host sets before execution
SPValues == {60, 61, 63, 65, 8703}

-----------------------------------------------------------------------------
(* The state machine *)

\* the Emulator fields as one record
Emu ==
    [io_mem |-> io_mem, pc |-> pc, call_stack |-> call_stack,
     skip_next_insn |-> skip_next_insn, insn_count |-> insn_count]

NoFrame == [ret |-> 0, sp |-> 0, sp_after |-> 0, bytes |-> <<0, 0, 0>>, depth |-> 0]

\* what the last operation was and what it saw before it acted: its name, the
\* opcode a step executed ("" when it skipped), pc and SP before it, the newest
\* pending call and whether the step found it nested, the argument of a host
\* call, and the opcode the step before it executed
Op(name, opcode, skipped, at, sp, nested, frame) ==
    [name |-> name, opcode |-> opcode, skipped |-> skipped, pc |-> at, sp |-> sp,
     nested |-> nested, frame |-> frame, arg |-> 0, prev |-> ""]

PlainOp(name) == Op(name, "", FALSE, pc, get_sp(io_mem), FALSE, NoFrame)

\* an operation of the host on io_mem, with its argument
HostOp(name, arg) == [PlainOp(name) EXCEPT !.arg = arg]

\* the three stack cells a call made with stack pointer sp writes
StackBytes(io, sp) ==
    <<raw_get8(io, sp), raw_get8(io, Wrap16(sp + 65535)), raw_get8(io, Wrap16(sp + 65534))>>

\* the opcode a step executes, "" when the step skips
Executed(m, prog) ==
    IF m.skip_next_insn THEN "" ELSE match_arm(prog[m.pc].opcode, prog[m.pc].operands)

\* the history of calls awaiting their return, after a step from m to m2: a call
\* records its return address next_pc, SP before and after it, the three stack
\* cells as it left them and the depth of the shadow call stack before it
NextFrames(m, m2, prog) ==
    LET arm == Executed(m, prog)
    IN  IF arm \in CallOpcodes
        THEN Append(frames, [ret |-> m.pc + prog[m.pc].len,
                             sp |-> get_sp(m.io_mem),
                             sp_after |-> get_sp(m2.io_mem),
                             bytes |-> StackBytes(m2.io_mem, get_sp(m.io_mem)),
                             depth |-> Len(m.call_stack)])
        ELSE IF arm \in RetOpcodes /\ frames # << >>
        THEN SubSeq(frames, 1, Len(frames) - 1)
        ELSE frames

\* a return is nested when the newest pending call is balanced (SP is where that
\* call left it) and its three return-address bytes are as the call left them
Nested(m) ==
    /\ frames # << >>
    /\ get_sp(m.io_mem) = frames[Len(frames)].sp_after
    /\ StackBytes(m.io_mem, frames[Len(frames)].sp) = frames[Len(frames)].bytes

Init(lines) ==
    /\ pmem_asm \in {load_disasm(l) : l \in Listings(lines)}
    /\ io_mem = Emulator_new.io_mem
    /\ pc = Emulator_new.pc
    /\ call_stack = Emulator_new.call_stack
    /\ skip_next_insn = Emulator_new.skip_next_insn
    /\ insn_count = Emulator_new.insn_count
    /\ halted = FALSE
    /\ mode = "idle"
    /\ until_pc = 0
    /\ crashed = FALSE
    /\ overflow_checks \in BOOLEAN
    /\ last_op = Op("new", "", FALSE, 0, 0, FALSE, NoFrame)
    /\ ret_val = 0
    /\ frames = << >>
    /\ rtc_reads = 0

\* the state after a call of _step that took the Emulator from m to m2
Commit(m, m2) ==
    /\ io_mem' = m2.io_mem
    /\ pc' = m2.pc
    /\ call_stack' = m2.call_stack
    /\ skip_next_insn' = m2.skip_next_insn
    /\ insn_count' = m2.insn_count
    /\ frames' = NextFrames(m, m2, pmem_asm)
    /\ rtc_reads' = IF /\ Executed(m, pmem_asm) \in {"in", "lds"}
                       /\ pmem_asm[m.pc].operands[2][2] = RTC_CNT
                    THEN rtc_reads + 1 ELSE rtc_reads
    /\ last_op' = [Op("step", Executed(m, pmem_asm), m.skip_next_insn, m.pc,
                        get_sp(m.io_mem), Nested(m),
                        IF frames # << >> THEN frames[Len(frames)] ELSE NoFrame)
                     EXCEPT !.prev = last_op.opcode]
    /\ crashed' = FALSE

\* one call of _step inside a public operation; a panic ends the process
StepEffect ==
    IF step_panics(Emu, pmem_asm, overflow_checks)
    THEN /\ crashed' = TRUE
         /\ last_op' = PlainOp("panic")
         /\ UNCHANGED <<io_mem, pc, call_stack, skip_next_insn, insn_count, frames,
                        rtc_reads>>
    ELSE Commit(Emu, step_result(Emu, pmem_asm))

CanStep == ~crashed /\ insn_count < MaxInsns

\* pub fn step
step ==
    /\ mode = "idle"
    /\ CanStep
    /\ StepEffect
    /\ UNCHANGED <<pmem_asm, halted, mode, until_pc, overflow_checks, ret_val>>

\* pub fn run: entering the loop
run ==
    /\ mode = "idle"
    /\ ~crashed
    /\ mode' = "run"
    /\ last_op' = PlainOp("run")
    /\ UNCHANGED <<pmem_asm, io_mem, pc, call_stack, skip_next_insn, insn_count, halted,
                   until_pc, crashed, overflow_checks, ret_val, frames, rtc_reads>>

\* pub fn run: one iteration of `loop { self._step(); }`
run_loop ==
    /\ mode = "run"
    /\ CanStep
    /\ StepEffect
    /\ UNCHANGED <<pmem_asm, halted, mode, until_pc, overflow_checks, ret_val>>

\* pub fn until: entering the loop
until(target) ==
    /\ mode = "idle"
    /\ ~crashed
    /\ mode' = "until"
    /\ until_pc' = target
    /\ last_op' = PlainOp("until")
    /\ UNCHANGED <<pmem_asm, io_mem, pc, call_stack, skip_next_insn, insn_count, halted,
                   crashed, overflow_checks, ret_val, frames, rtc_reads>>

\* pub fn until: one iteration of `loop { self._step(); if self.pc == pc { break; } }`
until_loop ==
    /\ mode = "until"
    /\ CanStep
    /\ StepEffect
    /\ mode' = IF ~crashed' /\ pc' = until_pc THEN "idle" ELSE "until"
    /\ until_pc' = IF mode' = "idle" THEN 0 ELSE until_pc
    /\ UNCHANGED <<pmem_asm, halted, overflow_checks, ret_val>>

\* a faulty reset, which leaves a pending skip pending
reset_keeps_skip ==
    /\ mode = "idle"
    /\ ~crashed
    /\ pc' = 0
    /\ io_mem' = IOMemory_new
    /\ call_stack' = << >>
    /\ insn_count' = 0
    /\ frames' = << >>
    /\ rtc_reads' = 0
    /\ last_op' = [Op("reset", "", FALSE, 0, 0, FALSE, NoFrame)
                       EXCEPT !.arg = IF Emu = Emulator_new THEN 0 ELSE 1]
    /\ UNCHANGED <<pmem_asm, skip_next_insn, halted, mode, until_pc, crashed,
                   overflow_checks, ret_val>>

\* pub fn reset; last_op.arg records whether it found the construction state (0)
\* or another (1)
reset ==
    /\ mode = "idle"
    /\ ~crashed
    /\ pc' = 0
    /\ io_mem' = IOMemory_new
    /\ call_stack' = << >>
    /\ skip_next_insn' = FALSE
    /\ insn_count' = 0
    /\ frames' = << >>
    /\ rtc_reads' = 0
    /\ last_op' = [Op("reset", "", FALSE, 0, 0, FALSE, NoFrame)
                       EXCEPT !.arg = IF Emu = Emulator_new THEN 0 ELSE 1]
    /\ UNCHANGED <<pmem_asm, halted, mode, until_pc, crashed, overflow_checks, ret_val>>

\* the host calls io_mem.set_sp(val) once, before it starts the program
host_set_sp(val) ==
    /\ mode = "idle"
    /\ ~crashed
    /\ last_op.name \in {"new", "reset"}
    /\ io_mem' = set_sp(io_mem, val)
    /\ last_op' = PlainOp("set_sp")
    /\ UNCHANGED <<pmem_asm, pc, call_stack, skip_next_insn, insn_count, halted, mode,
                   until_pc, crashed, overflow_checks, ret_val, frames, rtc_reads>>

\* the public operations of the engine
Next ==
    \/ step
    \/ run
    \/ run_loop
    \/ \E target \in UntilTargets : until(target)
    \/ until_loop
    \/ reset

\* stepping a program whose stack pointer the host has set
NextCall ==
    \/ step
    \/ reset
    \/ \E val \in SPValues : host_set_sp(val)

\* control-flow listings
Spec == Init(ControlLines) /\ [][Next]_vars

\* call/return listings
SpecCall == Init(CallLines) /\ [][NextCall]_vars

-----------------------------------------------------------------------------
(* The stack primitives of IOMemory, called directly (they are pub fn) on a  *)
(* memory whose stack pointer and stack cells are drawn from bounded sets.   *)

\* stack pointers: the floor, the cells around SPL/SPH, plain SRAM, the ceiling
StackSPs == {0, 1, 2, 3, 59, 60, 61, 62, 63, 64, 65, 66, 255, 256, 8703, 65533, 65535}

PushBytes == {0, 1, 61, 128, 255}

\* 0x000000, 0x000001, 0x3D3E3F, 0x800000, 0x123456, 0xFFFFFF
PushWords == {0, 1, 4013631, 8388608, 1193046, 16777215}

\* a memory whose cells sp+1 .. sp+3 hold 17, 34, 51 and whose stack pointer is sp
FilledStack(sp) ==
    set_sp(raw_set8(raw_set8(raw_set8(IOMemory_new, Wrap16(sp + 1), 17),
                             Wrap16(sp + 2), 34), Wrap16(sp + 3), 51), sp)

InitStack ==
    /\ pmem_asm = load_disasm(<< >>)
    /\ io_mem \in {set_sp(IOMemory_new, sp) : sp \in StackSPs}
                   \cup {FilledStack(sp) : sp \in StackSPs}
    /\ pc = 0
    /\ call_stack = << >>
    /\ skip_next_insn = FALSE
    /\ insn_count = 0
    /\ halted = FALSE
    /\ mode = "idle"
    /\ until_pc = 0
    /\ crashed = FALSE
    /\ overflow_checks \in BOOLEAN
    /\ last_op = Op("new", "", FALSE, 0, 0, FALSE, NoFrame)
    /\ ret_val = 0
    /\ frames = << >>
    /\ rtc_reads = 0

\* the effect of a host call on io_mem: it panics, or leaves memory io and returns val
HostCall(name, arg, panics, io, val) ==
    /\ last_op.name = "new"
    /\ last_op' = HostOp(name, arg)
    /\ IF panics
       THEN crashed' = TRUE /\ UNCHANGED <<io_mem, ret_val>>
       ELSE crashed' = FALSE /\ io_mem' = io /\ ret_val' = val
    /\ UNCHANGED <<pmem_asm, pc, call_stack, skip_next_insn, insn_count, halted, mode,
                   until_pc, overflow_checks, frames, rtc_reads>>

\* io_mem.push8(val)
call_push8(val) ==
    HostCall("push8", val, overflow_checks /\ push8_overflows(io_mem),
             push8(io_mem, val), ret_val)

\* io_mem.pop8()
call_pop8 ==
    HostCall("pop8", 0, overflow_checks /\ pop8_overflows(io_mem),
             pop8(io_mem).io, pop8(io_mem).val)

\* io_mem.push8(val); io_mem.pop8()
call_push8_pop8(val) ==
    HostCall("push8;pop8", val,
             overflow_checks /\ (\/ push8_overflows(io_mem)
                                 \/ pop8_overflows(push8(io_mem, val))),
             pop8(push8(io_mem, val)).io, pop8(push8(io_mem, val)).val)

\* io_mem.push24(val)
call_push24(val) ==
    HostCall("push24", val, overflow_checks /\ push24_overflows(io_mem, val),
             push24(io_mem, val), ret_val)

\* io_mem.pop24()
call_pop24 ==
    HostCall("pop24", 0, overflow_checks /\ pop24_overflows(io_mem),
             pop24(io_mem).io, pop24(io_mem).val)

\* io_mem.push24(val); io_mem.pop24()
call_push24_pop24(val) ==
    HostCall("push24;pop24", val,
             overflow_checks /\ (\/ push24_overflows(io_mem, val)
                                 \/ pop24_overflows(push24(io_mem, val))),
             pop24(push24(io_mem, val)).io, pop24(push24(io_mem, val)).val)

NextStack ==
    \/ \E val \in PushBytes : call_push8(val)
    \/ call_pop8
    \/ \E val \in PushBytes : call_push8_pop8(val)
    \/ \E val \in PushWords : call_push24(val)
    \/ call_pop24
    \/ \E val \in PushWords : call_push24_pop24(val)

SpecStack == InitStack /\ [][NextStack]_vars

-----------------------------------------------------------------------------
(* The byte projection of SReg, called directly on every flag combination *)

AllSRegs ==
    [c : BOOLEAN, z : BOOLEAN, n : BOOLEAN, v : BOOLEAN,
     s : BOOLEAN, h : BOOLEAN, t : BOOLEAN, i : BOOLEAN]

InitSReg ==
    /\ pmem_asm = load_disasm(<< >>)
    /\ io_mem \in {[IOMemory_new EXCEPT !.sreg = sr] : sr \in AllSRegs}
    /\ pc = 0
    /\ call_stack = << >>
    /\ skip_next_insn = FALSE
    /\ insn_count = 0
    /\ halted = FALSE
    /\ mode = "idle"
    /\ until_pc = 0
    /\ crashed = FALSE
    /\ overflow_checks \in BOOLEAN
    /\ last_op = Op("new", "", FALSE, 0, 0, FALSE, NoFrame)
    /\ ret_val = 0
    /\ frames = << >>
    /\ rtc_reads = 0

\* io_mem.sreg.as_u8()
call_as_u8 ==
    HostCall("as_u8", io_mem.sreg, FALSE, io_mem, as_u8(io_mem.sreg))

\* io_mem.sreg.set_u8(val); io_mem.sreg.as_u8()
call_set_u8_as_u8(val) ==
    HostCall("set_u8;as_u8", val, FALSE,
             [io_mem EXCEPT !.sreg = set_u8(io_mem.sreg, val)],
             as_u8(set_u8(io_mem.sreg, val)))

\* io_mem.sreg.set_u8(io_mem.sreg.as_u8())
call_set_u8_of_as_u8 ==
    HostCall("set_u8(as_u8)", io_mem.sreg, FALSE,
             [io_mem EXCEPT !.sreg = set_u8(io_mem.sreg, as_u8(io_mem.sreg))], ret_val)

NextSReg ==
    \/ call_as_u8
    \/ \E val \in U8 : call_set_u8_as_u8(val)
    \/ call_set_u8_of_as_u8

SpecSReg == InitSReg /\ [][NextSReg]_vars

-----------------------------------------------------------------------------
(* The accessors get8, set8, get16 and set16 of IOMemory, called directly on *)
(* memories drawn from a bounded set of states the emulator can be in.       *)

\* addresses on both sides of every boundary of the match arms of get8 and set8
IOAddrs ==
    {0, 31, 55, 56, 61, 62, 63, 64, 80, 81, 82, 1024, 1025, 1031, 1032, 1033, 1034,
     2207, 2208, 2209, 2210, 8191, 8192, 8193, 4194302, 4194303, 4194304, 16777215,
     16777216, 16777217}

\* 0x00, 'A', 0xA5, 0xFF
IOBytes == {0, 65, 165, 255}

\* 0x0000, 0x41A5, 0xFFFF
IOWords == {0, 16805, 65535}

\* the addresses of the RTC counter and of the 16-bit reads that touch it
RtcAddrs == {1031, 1032, 1033}

\* input the host has queued in the pub field usart_input
UsartQueues == {<<65>>, <<65, 10>>, <<128, 65, 66>>}

\* memories after IOMemory::new and a few calls
IOStates ==
    {IOMemory_new}
    \cup {[IOMemory_new EXCEPT !.usart_input = q] : q \in UsartQueues}
    \cup {set8(IOMemory_new, SREG, b) : b \in {1, 2, 165, 255}}
    \cup {push8(set_sp(IOMemory_new, SREG), 90),
          set8(IOMemory_new, SRAM_START, 90),
          set8(set8(IOMemory_new, SRAM_START, 1), SRAM_START + 1, 2),
          set8(IOMemory_new, DataMemLen - 1, 7),
          set8(set8(IOMemory_new, EIND, 3), RAMPD, 4),
          set8(set8(IOMemory_new, USART_C0, 66), USART_C0, 7)}

\* the one-instruction program the host may step: sts 0x08a0, r16
IOLine == Line(4, "sts", << <<"0", USART_C0>>, <<"r", 16>> >>)

InitIO ==
    /\ pmem_asm = load_disasm(Layout(<<IOLine>>, 1, 0))
    /\ io_mem \in IOStates
    /\ pc = 0
    /\ call_stack = << >>
    /\ skip_next_insn = FALSE
    /\ insn_count = 0
    /\ halted = FALSE
    /\ mode = "idle"
    /\ until_pc = 0
    /\ crashed = FALSE
    /\ overflow_checks \in BOOLEAN
    /\ last_op = Op("new", "", FALSE, 0, 0, FALSE, NoFrame)
    /\ ret_val = 0
    /\ frames = << >>
    /\ rtc_reads = 0

\* the last call was a read of the RTC counter that returned
RtcChain == last_op.name = "get8" /\ last_op.arg[1] = RTC_CNT /\ ~crashed

\* the last call was a read of the USART data or status register that returned
UsartChain ==
    last_op.name = "get8" /\ last_op.arg[1] \in {USART_C0, USART_C0_STATUS} /\ ~crashed

\* the last call was a write of the USART data register
LogChain == last_op.name = "set8" /\ last_op.arg[1] = USART_C0 /\ ~crashed

\* reads of the RTC, reads of the USART and writes of the USART may follow each
\* other; every other call is made once
CanCall(name, addr) ==
    /\ ~crashed
    /\ \/ last_op.name = "new"
       \/ /\ RtcChain
          /\ name \in {"get8", "get16"}
          /\ addr \in RtcAddrs
          /\ rtc_reads < MaxRtcReads
       \/ /\ UsartChain
          /\ name = "get8"
          /\ addr \in {USART_C0, USART_C0_STATUS}
       \/ /\ LogChain
          /\ name = "set8"
          /\ addr = USART_C0
          /\ Len(io_mem.usart_output_log) < MaxLogLen

\* the number of get8(0x0408) calls inside the call `name` at addr
RtcReadsIn(name, addr) ==
    IF \/ name \in {"get8", "set8;get8"} /\ addr = RTC_CNT
       \/ name = "get16" /\ addr \in {RTC_CNT - 1, RTC_CNT}
    THEN 1 ELSE 0

\* the host steps the instruction once
step_once == last_op.name = "new" /\ step

\* the effect of an accessor call: it panics, or leaves memory io and returns val
IoCall(name, addr, arg, panics, io, val) ==
    /\ CanCall(name, addr)
    /\ last_op' = HostOp(name, <<addr, arg>>)
    /\ IF panics
       THEN crashed' = TRUE /\ UNCHANGED <<io_mem, ret_val, rtc_reads>>
       ELSE /\ crashed' = FALSE
            /\ io_mem' = io
            /\ ret_val' = val
            /\ rtc_reads' = rtc_reads + RtcReadsIn(name, addr)
    /\ UNCHANGED <<pmem_asm, pc, call_stack, skip_next_insn, insn_count, halted, mode,
                   until_pc, overflow_checks, frames>>

\* io_mem.get8(addr)
call_get8(addr) ==
    IoCall("get8", addr, 0, get8_panics(io_mem, addr, overflow_checks),
           get8(io_mem, addr).io, get8(io_mem, addr).val)

\* io_mem.set8(addr, val)
call_set8(addr, val) ==
    IoCall("set8", addr, val, set8_panics(io_mem, addr, val),
           set8(io_mem, addr, val), ret_val)

\* io_mem.set8(addr, val); io_mem.get8(addr)
call_set8_get8(addr, val) ==
    IoCall("set8;get8", addr, val,
           \/ set8_panics(io_mem, addr, val)
           \/ get8_panics(set8(io_mem, addr, val), addr, overflow_checks),
           get8(set8(io_mem, addr, val), addr).io,
           get8(set8(io_mem, addr, val), addr).val)

\* io_mem.get16(addr)
call_get16(addr) ==
    IoCall("get16", addr, 0, get16_panics(io_mem, addr, overflow_checks),
           get16(io_mem, addr).io, get16(io_mem, addr).val)

\* io_mem.set16(addr, val)
call_set16(addr, val) ==
    IoCall("set16", addr, val, set16_panics(io_mem, addr, val),
           set16(io_mem, addr, val), ret_val)

NextIO ==
    \/ \E addr \in IOAddrs : call_get8(addr)
    \/ \E addr \in IOAddrs, val \in IOBytes : call_set8(addr, val)
    \/ \E addr \in IOAddrs, val \in IOBytes : call_set8_get8(addr, val)
    \/ \E addr \in IOAddrs : call_get16(addr)
    \/ \E addr \in IOAddrs, val \in IOWords : call_set16(addr, val)
    \/ step_once

SpecIO == InitIO /\ [][NextIO]_vars

-----------------------------------------------------------------------------
(* One arithmetic or SREG-port instruction, stepped once from a state whose  *)
(* registers r16, r17 and flags are drawn from bounded sets.                 *)

\* the value of r17 and of the immediate operand K
AluOperands == {0, 1, 7, 8, 15, 16, 17, 127, 128, 129, 254, 255}

\* the SREG byte before the instruction: every combination of C and Z, and
\* every flag set
AluFlags == {0, 1, 2, 3, 255}

\* the instructions, with immediate operand k
AluLines(k) ==
    { Line(2, "add", << <<"r", 16>>, <<"r", 17>> >>),
      Line(2, "adc", << <<"r", 16>>, <<"r", 17>> >>),
      Line(2, "cp", << <<"r", 16>>, <<"r", 17>> >>),
      Line(2, "cpc", << <<"r", 16>>, <<"r", 17>> >>),
      Line(2, "sub", << <<"r", 16>>, <<"r", 17>> >>),
      Line(2, "sbc", << <<"r", 16>>, <<"r", 17>> >>),
      Line(2, "cpi", << <<"r", 16>>, <<"0", k>> >>),
      Line(2, "subi", << <<"r", 16>>, <<"0", k>> >>),
      Line(2, "sbci", << <<"r", 16>>, <<"0", k>> >>),
      Line(2, "in", << <<"r", 17>>, <<"0", SREG>> >>),
      Line(2, "out", << <<"0", SREG>>, <<"r", 16>> >>) }

\* the memory after ldi r16, u; ldi r17, v, a push of 0x5A with SP = 0x3F (which
\* leaves 0x5A in data_mem[0x3F]) and a write of flags to SREG
AluMemory(u, v, flags) ==
    set8(push8(set_sp([IOMemory_new EXCEPT
                           !.regs = RegisterFile_set8(RegisterFile_set8(@, 16, u), 17, v)],
                      SREG), 90),
         SREG, flags)

InitAlu ==
    /\ \E u \in U8, v \in AluOperands, flags \in AluFlags :
          /\ pmem_asm \in {load_disasm(Layout(<<l>>, 1, 0)) : l \in AluLines(v)}
          /\ io_mem = AluMemory(u, v, flags)
    /\ pc = 0
    /\ call_stack = << >>
    /\ skip_next_insn = FALSE
    /\ insn_count = 0
    /\ halted = FALSE
    /\ mode = "idle"
    /\ until_pc = 0
    /\ crashed = FALSE
    /\ overflow_checks \in BOOLEAN
    /\ last_op = Op("new", "", FALSE, 0, 0, FALSE, NoFrame)
    /\ ret_val = 0
    /\ frames = << >>
    /\ rtc_reads = 0

NextAlu == step_once

SpecAlu == InitAlu /\ [][NextAlu]_vars

-----------------------------------------------------------------------------
(* The 16-bit accessors of RegisterFile and the 24-bit pointer accessors of  *)
(* IOMemory, called directly, and movw stepped once.                         *)

\* 0x0000, 0x0001, 0x00FF, 0x0100, 0x1234, 0x8000, 0xFFFF
RegWords == {0, 1, 255, 256, 4660, 32768, 65535}

\* 0x000000, 0x000001, 0x00FFFF, 0x010000, 0x123456, 0x800000, 0xFFFFFF
PointerWords == {0, 1, 65535, 65536, 1193046, 8388608, 16777215}

\* register indices passed to get_full_reg and set_full_reg
FullRegs == {0, 24, 26, 27, 28, 30, 31}

\* movw between pairs, one of them onto itself
MovwLines ==
    { Line(2, "movw", << <<"r", 24>>, <<"r", 26>> >>),
      Line(2, "movw", << <<"r", 30>>, <<"r", 16>> >>),
      Line(2, "movw", << <<"r", 0>>, <<"r", 0>> >>) }

\* a memory whose 32 registers hold 32 different bytes, and whose RAMPX, RAMPY,
\* RAMPZ hold 0x11, 0x22, 0x33
RegsMemory(seed) ==
    raw_set8(raw_set8(raw_set8(
        [IOMemory_new EXCEPT !.regs = [i \in 0 .. 31 |-> (seed + 7 * i) % 256]],
        RAMPX, 17), RAMPY, 34), RAMPZ, 51)

InitRegs ==
    /\ pmem_asm \in {load_disasm(Layout(<<l>>, 1, 0)) : l \in MovwLines}
    /\ io_mem \in {RegsMemory(seed) : seed \in {1, 100}}
    /\ pc = 0
    /\ call_stack = << >>
    /\ skip_next_insn = FALSE
    /\ insn_count = 0
    /\ halted = FALSE
    /\ mode = "idle"
    /\ until_pc = 0
    /\ crashed = FALSE
    /\ overflow_checks \in BOOLEAN
    /\ last_op = Op("new", "", FALSE, 0, 0, FALSE, NoFrame)
    /\ ret_val = 0
    /\ frames = << >>
    /\ rtc_reads = 0

\* io_mem.regs.set16(i, val); io_mem.regs.get16(i): r[i + 1] is out of bounds
\* for i = 31
call_set16_get16(i, val) ==
    HostCall("regs.set16;get16", <<i, val>>, i + 1 > 31,
             [io_mem EXCEPT !.regs = RegisterFile_set16(io_mem.regs, i, val)],
             RegisterFile_get16(RegisterFile_set16(io_mem.regs, i, val), i))

\* io_mem.get_full_reg(reg)
call_get_full_reg(reg) ==
    HostCall("get_full_reg", <<reg>>, full_reg_panics(reg),
             io_mem, get_full_reg(io_mem, reg))

\* io_mem.set_full_reg(reg, val); io_mem.get_full_reg(reg)
call_set_full_reg_get_full_reg(reg, val) ==
    HostCall("set_full_reg;get_full_reg", <<reg, val>>, full_reg_panics(reg),
             set_full_reg(io_mem, reg, val),
             get_full_reg(set_full_reg(io_mem, reg, val), reg))

\* io_mem.set_full_reg(reg, val); io_mem.set8(addr, b); io_mem.get_full_reg(reg)
call_set_full_reg_set8_get_full_reg(reg, val, addr, b) ==
    HostCall("set_full_reg;set8;get_full_reg", <<reg, val, addr, b>>,
             full_reg_panics(reg),
             set8(set_full_reg(io_mem, reg, val), addr, b),
             get_full_reg(set8(set_full_reg(io_mem, reg, val), addr, b), reg))

\* io_mem.set_full_reg(reg, val); io_mem.regs.set16(reg, w); io_mem.get_full_reg(reg)
call_set_full_reg_set16_get_full_reg(reg, val, w) ==
    HostCall("set_full_reg;regs.set16;get_full_reg", <<reg, val, w>>,
             full_reg_panics(reg) \/ reg + 1 > 31,
             [set_full_reg(io_mem, reg, val) EXCEPT !.regs = RegisterFile_set16(@, reg, w)],
             get_full_reg([set_full_reg(io_mem, reg, val) EXCEPT
                              !.regs = RegisterFile_set16(@, reg, w)], reg))

NextRegs ==
    \/ \E i \in 0 .. 31, val \in RegWords : call_set16_get16(i, val)
    \/ \E reg \in FullRegs : call_get_full_reg(reg)
    \/ \E reg \in FullRegs, val \in PointerWords : call_set_full_reg_get_full_reg(reg, val)
    \/ \E reg \in FullRegs, val \in {1193046}, addr \in RAMPX .. RAMPZ, b \in {0, 165} :
          call_set_full_reg_set8_get_full_reg(reg, val, addr, b)
    \/ \E reg \in FullRegs, val \in {1193046}, w \in {0, 65244} :
          call_set_full_reg_set16_get_full_reg(reg, val, w)
    \/ step_once

SpecRegs == InitRegs /\ [][NextRegs]_vars

-----------------------------------------------------------------------------
(* Short programs of one or two instructions, stepped from states whose      *)
(* registers, flags and pointers are drawn from bounded sets.                *)

\* number of calls of step
MaxUnitSteps == 2

\* 0x00, 0x01, 0x40, 0x7F, 0x80, 0xA5, 0xFF
UnitBytes == {0, 1, 64, 127, 128, 165, 255}

\* instructions on one register
UnaryLines ==
    { Line(2, "neg", << <<"r", 16>> >>),
      Line(2, "clr", << <<"r", 16>> >>),
      Line(2, "eor", << <<"r", 16>>, <<"r", 16>> >>),
      Line(2, "ser", << <<"r", 16>> >>),
      Line(2, "ldi", << <<"r", 16>>, <<"0", 255>> >>) }

\* every conditional branch, forwards, to the next instruction and backwards
BranchLines ==
    {Line(2, opcode, << <<".", ofs>> >>) : opcode \in BranchOpcodes, ofs \in {4, 0, -2}}

\* the skip instructions
SkipLines ==
    {Line(2, opcode, << <<"r", 16>>, <<"0", b>> >>) : opcode \in {"sbrc", "sbrs"}, b \in 0 .. 7}
    \cup {Line(2, "cpse", << <<"r", 16>>, <<"r", 17>> >>)}

\* instructions without a handler: an unknown opcode, and a known opcode with
\* operands of the wrong shape
UnknownLines ==
    { Line(2, "break", << >>),
      Line(2, "ldi", << <<"r", 18>>, <<"r", 17>> >>) }

\* what follows a skip instruction: one word, two words, or no handler
AfterSkipLines ==
    { Line(2, "ldi", << <<"r", 18>>, <<"0", 1>> >>),
      Line(4, "lds", << <<"r", 18>>, <<"0", SRAM_START>> >>) }
    \cup UnknownLines

\* loads and stores through X, Y and Z: with pre-decrement, with
\* post-increment, with a displacement and plain
PointerLines ==
    {Line(2, "ld", << <<"r", 16>>, <<"-", "-", p, "", 0>> >>) : p \in {"X", "Y", "Z"}}
    \cup {Line(2, "st", << <<"-", "-", p, "", 0>>, <<"r", 17>> >>) : p \in {"X", "Y", "Z"}}
    \cup { Line(2, "ld", << <<"r", 16>>, <<"X", "", "X", "+", 0>> >>),
           Line(2, "ld", << <<"r", 16>>, <<"Z", "", "Z", "", 0>> >>),
           Line(2, "ldd", << <<"r", 16>>, <<"Y", "", "Y", "", 1>> >>),
           Line(2, "st", << <<"Y", "", "Y", "+", 0>>, <<"r", 17>> >>),
           Line(2, "std", << <<"Z", "", "Z", "", 2>>, <<"r", 17>> >>) }

\* 24-bit pointers: 0, 1, around the start of SRAM, across a RAMP boundary, and
\* around the end of data_mem
PointerValues == {0, 1, 8193, 8194, 65536, 73729, DataMemLen, DataMemLen + 1}

\* a memory with bytes in four cells of SRAM, and X, Y and Z all holding base
PointerMemory(base) ==
    set_full_reg(set_full_reg(set_full_reg(
        set8(set8(set8(set8(AluMemory(90, 165, 0), SRAM_START, 17), SRAM_START + 1, 34),
                  65535, 51), DataMemLen - 1, 68),
        26, base), 28, base), 30, base)

\* the program and the memory of the initial state
UnitCase(listing, io) ==
    /\ pmem_asm = load_disasm(Layout(listing, 1, 0))
    /\ io_mem = io

InitUnit ==
    /\ \/ \E l \in UnaryLines, u \in U8, flags \in AluFlags :
             UnitCase(<<l>>, AluMemory(u, 0, flags))
       \/ \E l \in BranchLines, flags \in U8 :
             UnitCase(<<l>>, AluMemory(0, 0, flags))
       \/ \E l \in SkipLines, a \in AfterSkipLines, u \in UnitBytes, v \in {0, 165},
             flags \in {0, 255} :
             UnitCase(<<l, a>>, AluMemory(u, v, flags))
       \/ \E l \in UnknownLines, u \in {0, 165}, flags \in {0, 255} :
             UnitCase(<<l>>, AluMemory(u, 165, flags))
       \/ \E l \in PointerLines, base \in PointerValues :
             UnitCase(<<l>>, PointerMemory(base))
    /\ pc = 0
    /\ call_stack = << >>
    /\ skip_next_insn = FALSE
    /\ insn_count = 0
    /\ halted = FALSE
    /\ mode = "idle"
    /\ until_pc = 0
    /\ crashed = FALSE
    /\ overflow_checks \in BOOLEAN
    /\ last_op = Op("new", "", FALSE, 0, 0, FALSE, NoFrame)
    /\ ret_val = 0
    /\ frames = << >>
    /\ rtc_reads = 0

\* the host steps the program
step_unit == insn_count < MaxUnitSteps /\ step

NextUnit == step_unit

SpecUnit == InitUnit /\ [][NextUnit]_vars

-----------------------------------------------------------------------------
(* Two calls with pushes and pops between and after them, then a return:     *)
(* `rcall .+0` continues at the next instruction, so the listing is run from *)
(* top to bottom.                                                            *)

MaxFrameSteps == 8

FrameLines ==
    { Line(2, "push", << <<"r", 0>> >>),
      Line(2, "pop", << <<"r", 0>> >>) }

ReturnLines ==
    { Line(2, "ret", << >>),
      Line(2, "reti", << >>) }

RcallNext == Line(2, "rcall", << <<".", 0>> >>)

InitFrames ==
    /\ \E a, b, c, d, e \in FrameLines, r \in ReturnLines :
          pmem_asm = load_disasm(Layout(<<RcallNext, a, b, c, d, RcallNext, e, r>>, 1, 0))
    /\ io_mem \in {set_sp(IOMemory_new, sp) : sp \in {4096, 8703}}
    /\ pc = 0
    /\ call_stack = << >>
    /\ skip_next_insn = FALSE
    /\ insn_count = 0
    /\ halted = FALSE
    /\ mode = "idle"
    /\ until_pc = 0
    /\ crashed = FALSE
    /\ overflow_checks \in BOOLEAN
    /\ last_op = Op("new", "", FALSE, 0, 0, FALSE, NoFrame)
    /\ ret_val = 0
    /\ frames = << >>
    /\ rtc_reads = 0

\* pub fn step, called by the host up to MaxFrameSteps times
step_frames ==
    /\ mode = "idle"
    /\ ~crashed
    /\ insn_count < MaxFrameSteps
    /\ StepEffect
    /\ UNCHANGED <<pmem_asm, halted, mode, until_pc, overflow_checks, ret_val>>

NextFrameSteps == step_frames

SpecFrames == InitFrames /\ [][NextFrameSteps]_vars

-----------------------------------------------------------------------------
(* Programs that load r24 and r25, disturb one flag, and then execute one    *)
(* instruction that assigns flags, from the construction state.              *)

\* values loaded into r24: as SREG bytes, 4 is N alone, 16 is S alone, 12 is N
\* and V
FlagBytes == {0, 1, 4, 12, 16, 127, 128, 255}

\* the instruction before the one observed
DisturbLines ==
    {Line(2, o, << >>) : o \in {"nop", "sec", "sen", "sev", "ses"}}

\* instructions that assign flags
FlagLines ==
    {Line(2, o, << >>) : o \in DOMAIN FlagArms}
    \cup {Line(2, o, << <<"r", 24>>, <<"r", 25>> >>) :
             o \in {"and", "or", "eor", "add", "adc", "sub", "sbc", "cp", "cpc", "mul"}}
    \cup {Line(2, o, << <<"r", 24>>, <<"0", k>> >>) :
             o \in {"andi", "ori", "subi", "sbci", "cpi"}, k \in {1, 128}}
    \cup {Line(2, o, << <<"r", 24>>, <<"0", k>> >>) : o \in {"adiw", "sbiw"}, k \in {1, 63}}
    \cup {Line(2, o, << <<"r", 24>> >>) :
             o \in {"lsr", "asr", "ror", "inc", "dec", "com", "neg"}}
    \cup { Line(2, "out", << <<"0", SREG>>, <<"r", 24>> >>),
           Line(4, "sts", << <<"0", SREG>>, <<"r", 24>> >>) }

InitFlags ==
    /\ \E a \in FlagBytes, b \in {0, 1, 127, 128, 255}, d \in DisturbLines, l \in FlagLines :
          pmem_asm = load_disasm(Layout(<<Line(2, "ldi", << <<"r", 24>>, <<"0", a>> >>),
                                         Line(2, "ldi", << <<"r", 25>>, <<"0", b>> >>),
                                         d, l>>, 1, 0))
    /\ io_mem = Emulator_new.io_mem
    /\ pc = Emulator_new.pc
    /\ call_stack = Emulator_new.call_stack
    /\ skip_next_insn = Emulator_new.skip_next_insn
    /\ insn_count = Emulator_new.insn_count
    /\ halted = FALSE
    /\ mode = "idle"
    /\ until_pc = 0
    /\ crashed = FALSE
    /\ overflow_checks \in BOOLEAN
    /\ last_op = Op("new", "", FALSE, 0, 0, FALSE, NoFrame)
    /\ ret_val = 0
    /\ frames = << >>
    /\ rtc_reads = 0

NextFlags == step

SpecFlags == InitFlags /\ [][NextFlags]_vars

-----------------------------------------------------------------------------
(* Programs that change every part of the machine, with reset at any time.   *)

\* instructions that write a register, the USART output log, the RTC counter,
\* skip_next_insn, the stack and the shadow call stack, SRAM, the flags and RAMPZ
ResetLines ==
    { Line(2, "ldi", << <<"r", 16>>, <<"0", 165>> >>),
      Line(4, "sts", << <<"0", USART_C0>>, <<"r", 16>> >>),
      Line(4, "lds", << <<"r", 16>>, <<"0", RTC_CNT>> >>),
      Line(4, "lds", << <<"r", 17>>, <<"0", USART_C0>> >>),
      Line(2, "sbrc", << <<"r", 0>>, <<"0", 0>> >>),
      Line(2, "rcall", << <<".", 0>> >>),
      Line(4, "sts", << <<"0", SRAM_START>>, <<"r", 16>> >>),
      Line(2, "out", << <<"0", SREG>>, <<"r", 16>> >>),
      Line(2, "out", << <<"0", RAMPZ>>, <<"r", 16>> >>) }

\* the host queues input in the pub field usart_input once, before it starts the
\* program
host_usart_input(q) ==
    /\ mode = "idle"
    /\ ~crashed
    /\ last_op.name \in {"new", "reset", "set_sp"}
    /\ io_mem' = [io_mem EXCEPT !.usart_input = q]
    /\ last_op' = PlainOp("usart_input")
    /\ UNCHANGED <<pmem_asm, pc, call_stack, skip_next_insn, insn_count, halted, mode,
                   until_pc, crashed, overflow_checks, ret_val, frames, rtc_reads>>

NextReset ==
    \/ step
    \/ reset
    \/ host_set_sp(8703)
    \/ host_usart_input(<<65, 10>>)

SpecReset == Init(ResetLines) /\ [][NextReset]_vars

-----------------------------------------------------------------------------
(* Claims about halting, run and until *)

\* prog_mem is vec![0; 1 << 22]: program memory holds 2^22 bytes (2^21 words)
ProgMemBytes == 4194304

\* the last operation was a step that executed (did not skip) an RJMP whose
\* target is its own address, with flag I clear
StopExecuted ==
    /\ last_op.name = "step"
    /\ ~last_op.skipped
    /\ last_op.opcode = "rjmp"
    /\ pmem_asm[last_op.pc].operands[1][2] = last_op.pc
    /\ ~io_mem.sreg.i

\* C1: a step that executes an RJMP to its own address with I = 0 sets halted,
\* and leaves PC at the address of that RJMP.
C1_HaltOnStopProgram == StopExecuted => (halted /\ pc = last_op.pc)

\* C2: once run has executed the halting RJMP it executes no further
\* instruction: the instruction counter stays as that step left it.
C2_RunStopsOnHalt ==
    [][(mode = "run" /\ StopExecuted) => insn_count' = insn_count]_vars

\* C3: until(target_pc) is over as soon as a step has left PC at target_pc or has
\* executed the halting RJMP: while it is still looping after a step, neither
\* has happened.
C3_UntilStopsOnTargetOrHalt ==
    (mode = "until" /\ last_op.name = "step") => (pc # until_pc /\ ~StopExecuted)

\* C8: after any instruction, unless halted, PC is even and lies in [0, 2N), N
\* the number of program-memory words.
C8_PcEvenAndInRange ==
    (last_op.name = "step" /\ ~halted)
        => (pc % 2 = 0 /\ pc >= 0 /\ pc < ProgMemBytes)

-----------------------------------------------------------------------------
(* Claims about calls and returns *)

\* the last operation was a step that executed RET or RETI and found the newest
\* pending call nested: SP balanced and its three return-address bytes untouched
NestedReturn ==
    /\ last_op.name = "step"
    /\ last_op.opcode \in RetOpcodes
    /\ last_op.nested

\* the three cells a call with stack pointer sp writes are not SPL or SPH
StackClearOfSP(sp) == sp \notin SPL .. SPH + 2

\* C4 as claimed: after every nested RET or RETI, PC is the byte address next_pc
\* captured by the matching CALL/RCALL/EICALL.
C4_ReturnToNextPc == NestedReturn => pc = last_op.frame.ret

\* C4 as amended: the same, for calls whose three stack cells are not SPL or SPH.
C4_ReturnToNextPcClearOfSP ==
    (NestedReturn /\ StackClearOfSP(last_op.frame.sp)) => pc = last_op.frame.ret

\* a nested return to a call made from inside another pending call
C4_Witness ==
    /\ NestedReturn
    /\ StackClearOfSP(last_op.frame.sp)
    /\ frames # << >>
    /\ pc = last_op.frame.ret
    /\ pc > 0

\* the last two operations were a step that executed a call and a step that
\* executed RET at the callee
CallThenRet ==
    /\ last_op.name = "step"
    /\ last_op.opcode = "ret"
    /\ last_op.prev \in CallOpcodes

\* SP, PC and shadow call stack are as a call followed by RET must leave them
BackFromCall ==
    /\ get_sp(io_mem) = last_op.frame.sp
    /\ pc = last_op.frame.ret
    /\ (last_op.frame.depth = 0 => call_stack = << >>)

\* C5 as claimed: a call followed at the callee by RET leaves SP at its value
\* before the call, PC at the instruction following the call and the shadow call
\* stack empty when it was empty before the call.
C5_CallRetRestores == CallThenRet => BackFromCall

\* C5 as amended: the same, for calls whose three stack cells are not SPL or SPH.
C5_CallRetRestoresClearOfSP ==
    (CallThenRet /\ StackClearOfSP(last_op.frame.sp)) => BackFromCall

\* CALL 4 at address 0 (a 4-byte instruction) followed by RET, in SRAM
C5_Witness ==
    /\ CallThenRet
    /\ last_op.frame.sp = 8703
    /\ last_op.frame.depth = 0
    /\ pc = 4
    /\ get_sp(io_mem) = 8703
    /\ call_stack = << >>

-----------------------------------------------------------------------------
(* Claims about the stack primitives *)

\* what push8(val) with stack pointer sp leaves: val in cell sp, SP one lower
Pushed8 ==
    /\ ~crashed
    /\ raw_get8(io_mem, last_op.sp) = last_op.arg
    /\ get_sp(io_mem) = last_op.sp - 1

\* what pop8() leaves: SP one higher, and the byte returned is the cell at the new SP
Popped8 ==
    /\ get_sp(io_mem) = Wrap16(last_op.sp + 1)
    /\ ret_val = raw_get8(io_mem, get_sp(io_mem))

\* what push8(val); pop8() leaves: val returned, SP as before
RoundTrip8 ==
    /\ ~crashed
    /\ ret_val = last_op.arg
    /\ get_sp(io_mem) = last_op.sp

\* C6 as claimed: for every byte and every SP >= 1, the cells of SPL and SPH
\* included, push8 stores the byte at the old SP and then decrements SP, pop8
\* increments SP and then reads, and push8 followed by pop8 returns the byte and
\* restores SP.
C6_Push8Pop8 ==
    /\ (last_op.name = "push8" /\ last_op.sp >= 1) => Pushed8
    /\ (last_op.name = "pop8" /\ ~crashed) => Popped8
    /\ (last_op.name = "push8;pop8" /\ last_op.sp >= 1) => RoundTrip8

\* C6 as amended: the same for every SP >= 1 that is not the address of SPL or SPH.
C6_Push8Pop8ClearOfSP ==
    /\ (last_op.name = "push8" /\ last_op.sp >= 1 /\ last_op.sp \notin {SPL, SPH})
           => Pushed8
    /\ (last_op.name = "pop8" /\ ~crashed) => Popped8
    /\ (last_op.name = "push8;pop8" /\ last_op.sp >= 1 /\ last_op.sp \notin {SPL, SPH})
           => RoundTrip8

\* push8(0xFF); pop8() at SP = 0x40, the first stack pointer above SPL/SPH/SREG
C6_Witness ==
    /\ last_op.name = "push8;pop8"
    /\ last_op.sp = 64
    /\ last_op.arg = 255
    /\ ret_val = 255
    /\ get_sp(io_mem) = 64

\* what push24(val) with stack pointer sp leaves: low byte in cell sp, middle
\* byte in cell sp - 1, high byte in cell sp - 2
Pushed24 ==
    /\ raw_get8(io_mem, last_op.sp) = last_op.arg % 256
    /\ raw_get8(io_mem, Wrap16(last_op.sp + 65535)) = (last_op.arg \div 256) % 256
    /\ raw_get8(io_mem, Wrap16(last_op.sp + 65534)) = last_op.arg \div 65536

\* C7 as claimed: for every 24-bit value, push24 followed by pop24 returns the
\* value and restores SP, and push24 leaves the low byte at s, the middle byte at
\* s - 1 and the high byte at s - 2.
C7_Push24Pop24 ==
    /\ last_op.name = "push24;pop24" => RoundTrip8
    /\ last_op.name = "push24" => (~crashed /\ Pushed24)

\* C7 as amended: the same for every SP s >= 3 whose cells s, s - 1, s - 2 are
\* not SPL or SPH.
C7_Push24Pop24ClearOfSP ==
    /\ (last_op.name = "push24;pop24" /\ last_op.sp >= 3 /\ StackClearOfSP(last_op.sp))
           => RoundTrip8
    /\ (last_op.name = "push24" /\ last_op.sp >= 3 /\ StackClearOfSP(last_op.sp))
           => (~crashed /\ Pushed24)

\* push24(0x123456); pop24() at SP = 0x21FF
C7_Witness ==
    /\ last_op.name = "push24;pop24"
    /\ last_op.sp = 8703
    /\ last_op.arg = 1193046
    /\ ret_val = 1193046
    /\ get_sp(io_mem) = 8703

-----------------------------------------------------------------------------
(* Claims about skipping *)

\* C9: a step taken while skip_next_insn is set clears it, advances PC by the
\* byte size of the instruction at PC, counts one instruction and changes
\* neither registers, flags, memory, SP nor the shadow call stack.
C9_SkipStep ==
    [][(skip_next_insn /\ last_op'.name = "step")
          => /\ skip_next_insn' = FALSE
             /\ pc' = pc + pmem_asm[pc].len
             /\ pmem_asm[pc].len = IF pmem_asm[pc].opcode \in {"jmp", "call", "lds", "sts"}
                                   THEN 4 ELSE 2
             /\ insn_count' = insn_count + 1
             /\ io_mem' = io_mem
             /\ call_stack' = call_stack]_vars

\* a skipped 4-byte CALL: PC moved on by 4 and nothing was pushed
C9_Witness ==
    /\ last_op.name = "step"
    /\ last_op.skipped
    /\ pmem_asm[last_op.pc].opcode = "call"
    /\ pc = last_op.pc + 4
    /\ ~skip_next_insn
    /\ call_stack = << >>

-----------------------------------------------------------------------------
(* Claims about the SREG byte *)

\* the byte whose bits 0..7 are C, Z, N, V, S, H, T, I
PackedFlags(sr) ==
    (IF sr.c THEN 1 ELSE 0) + (IF sr.z THEN 2 ELSE 0) + (IF sr.n THEN 4 ELSE 0)
    + (IF sr.v THEN 8 ELSE 0) + (IF sr.s THEN 16 ELSE 0) + (IF sr.h THEN 32 ELSE 0)
    + (IF sr.t THEN 64 ELSE 0) + (IF sr.i THEN 128 ELSE 0)

\* C10: as_u8 packs C, Z, N, V, S, H, T, I into bits 0..7; set_u8(as_u8()) leaves
\* every flag unchanged; as_u8() after set_u8(b) returns b, for every byte b.
C10_SRegByteBijection ==
    /\ last_op.name = "as_u8" => ret_val = PackedFlags(last_op.arg)
    /\ last_op.name = "set_u8(as_u8)" => io_mem.sreg = last_op.arg
    /\ last_op.name = "set_u8;as_u8"
           => (ret_val = last_op.arg /\ PackedFlags(io_mem.sreg) = last_op.arg)

\* as_u8() after set_u8(0xA5) returned 0xA5, with flags C, N, H, I set
C10_Witness ==
    /\ last_op.name = "set_u8;as_u8"
    /\ last_op.arg = 165
    /\ ret_val = 165
    /\ io_mem.sreg = [c |-> TRUE, z |-> FALSE, n |-> TRUE, v |-> FALSE,
                      s |-> FALSE, h |-> TRUE, t |-> FALSE, i |-> TRUE]

-----------------------------------------------------------------------------
(* Claims about the SREG port and the arithmetic flags *)

\* a transition that executes one of the instructions ops
Executes(ops) == last_op'.name = "step" /\ last_op'.opcode \in ops

\* the destination value, the source value (r17 or the immediate) and the
\* carry before the instruction
RdVal == io_mem.regs[pmem_asm[pc].operands[1][2]]
RrVal ==
    IF pmem_asm[pc].operands[2][1] = "Imm" THEN pmem_asm[pc].operands[2][2] % 256
    ELSE io_mem.regs[pmem_asm[pc].operands[2][2]]
CarryIn == IF io_mem.sreg.c THEN 1 ELSE 0

\* C11: address 0x3F mirrors the flags and has no storage of its own: IN Rd,0x3F
\* loads the packed flags and changes neither flags nor memory; OUT 0x3F,Rr makes
\* the eight flags the bits of Rr and changes neither data memory nor registers.
C11_SRegPortMirrorsFlags ==
    [][/\ Executes({"in"})
          => /\ io_mem'.regs = [io_mem.regs EXCEPT ![17] = PackedFlags(io_mem.sreg)]
             /\ io_mem'.sreg = io_mem.sreg
             /\ io_mem'.data_mem = io_mem.data_mem
       /\ Executes({"out"})
          => /\ PackedFlags(io_mem'.sreg) = io_mem.regs[16]
             /\ io_mem'.data_mem = io_mem.data_mem
             /\ io_mem'.regs = io_mem.regs]_vars

\* OUT 0x3F,r16 with r16 = 0xA5 has set C, N, H, I and left data_mem[0x3F] alone
C11_Witness ==
    /\ last_op.name = "step"
    /\ last_op.opcode = "out"
    /\ io_mem.regs[16] = 165
    /\ PackedFlags(io_mem.sreg) = 165
    /\ raw_get8(io_mem, SREG) = 90

\* C12: SUB, SUBI, CP, CPI compute R = (u - v) mod 256, set C exactly when
\* u < v and Z exactly when u = v (so SUB(u,u) gives Z=1, N=0, V=0, C=0); CP and
\* CPI leave the registers unchanged, SUB and SUBI store R in the destination.
C12_SubtractNoCarry ==
    [][Executes({"sub", "subi", "cp", "cpi"})
          => /\ io_mem'.sreg.c = (RdVal < RrVal)
             /\ io_mem'.sreg.z = (RdVal = RrVal)
             /\ io_mem'.sreg.n = ((RdVal - RrVal + 256) % 256 >= 128)
             /\ RdVal = RrVal => (~io_mem'.sreg.n /\ ~io_mem'.sreg.v /\ ~io_mem'.sreg.c)
             /\ io_mem'.regs =
                   IF last_op'.opcode \in {"cp", "cpi"} THEN io_mem.regs
                   ELSE [io_mem.regs EXCEPT ![16] = (RdVal - RrVal + 256) % 256]]_vars

\* SUB r16,r17 with 0x0F - 0x10 left 0xFF in r16 and set C
C12_Witness ==
    /\ last_op.name = "step"
    /\ last_op.opcode = "sub"
    /\ io_mem.regs[16] = 255
    /\ io_mem.regs[17] = 16
    /\ io_mem.sreg.c
    /\ ~io_mem.sreg.z

\* the value of the byte x as a signed 8-bit number
Signed8(x) == IF x >= 128 THEN x - 256 ELSE x

\* C13: ADD and ADC (carry-in 0 and C) write R = (Rd + Rr + c) mod 256 and set C
\* exactly when Rd + Rr + c > 255, H when there is a carry out of bit 3, V when
\* the signed sum overflows, N = bit 7 of R, Z when R = 0, S = N xor V.
C13_AddFlags ==
    [][Executes({"add", "adc"})
          => LET c == IF last_op'.opcode = "adc" THEN CarryIn ELSE 0
                 sum == RdVal + RrVal + c
                 ssum == Signed8(RdVal) + Signed8(RrVal) + c
             IN  /\ io_mem'.regs = [io_mem.regs EXCEPT ![16] = sum % 256]
                 /\ io_mem'.sreg.c = (sum > 255)
                 /\ io_mem'.sreg.h = ((RdVal % 16) + (RrVal % 16) + c > 15)
                 /\ io_mem'.sreg.v = (ssum > 127 \/ ssum < -128)
                 /\ io_mem'.sreg.n = (sum % 256 >= 128)
                 /\ io_mem'.sreg.z = (sum % 256 = 0)
                 /\ io_mem'.sreg.s = (io_mem'.sreg.n # io_mem'.sreg.v)
                 /\ io_mem'.sreg.t = io_mem.sreg.t
                 /\ io_mem'.sreg.i = io_mem.sreg.i]_vars

\* ADD(0xFF, 0x01) gave 0 with C=1, Z=1, V=0, H=1, N=0
C13_Witness ==
    /\ last_op.name = "step"
    /\ last_op.opcode = "add"
    /\ io_mem.regs[16] = 0
    /\ io_mem.regs[17] = 1
    /\ io_mem.sreg.c /\ io_mem.sreg.z /\ io_mem.sreg.h
    /\ ~io_mem.sreg.v /\ ~io_mem.sreg.n

\* C14: after SBC, SBCI and CPC, Z = (R = 0) /\ Z before, with
\* R = (Rd - Rr - C) mod 256, so they never set a clear Z; after SUB, SUBI, CP
\* and CPI, Z = (R = 0) whatever Z was.
C14_CarryKeepsZero ==
    [][/\ Executes({"sbc", "sbci", "cpc"})
          => /\ io_mem'.sreg.z = (((RdVal - RrVal - CarryIn + 512) % 256 = 0) /\ io_mem.sreg.z)
             /\ ~io_mem.sreg.z => ~io_mem'.sreg.z
       /\ Executes({"sub", "subi", "cp", "cpi"})
          => io_mem'.sreg.z = ((RdVal - RrVal + 256) % 256 = 0)]_vars

\* CPC of equal registers with C clear found R = 0 but Z stayed clear
C14_Witness ==
    /\ last_op.name = "step"
    /\ last_op.opcode = "cpc"
    /\ io_mem.regs[16] = io_mem.regs[17]
    /\ ~io_mem.sreg.c
    /\ ~io_mem.sreg.z

-----------------------------------------------------------------------------
(* Claims about the accessors of IOMemory *)

\* the call just made is `name` at address addr
Calls(name, addr) == last_op'.name = name /\ last_op'.arg[1] = addr

\* C15: USART input is a FIFO: a get8(0x08A0) returns the head of usart_input
\* and removes exactly that byte, so successive reads return the bytes in the
\* order queued; a get8(0x08A1) returns bit 5 set and bit 7 exactly when
\* usart_input is non-empty, and consumes nothing; a get8(0x08A0) with
\* usart_input empty is fatal and returns no value.
C15_UsartFifo ==
    [][/\ Calls("get8", USART_C0) /\ io_mem.usart_input # << >>
          => /\ ~crashed'
             /\ ret_val' = Head(io_mem.usart_input)
             /\ io_mem' = [io_mem EXCEPT !.usart_input = Tail(io_mem.usart_input)]
       /\ Calls("get8", USART_C0) /\ io_mem.usart_input = << >>
          => crashed' /\ io_mem' = io_mem /\ ret_val' = ret_val
       /\ Calls("get8", USART_C0_STATUS)
          => /\ ~crashed'
             /\ ret_val' = 32 + (IF io_mem.usart_input # << >> THEN 128 ELSE 0)
             /\ io_mem' = io_mem]_vars

\* three successive reads of the queue [0x80, 'A', 'B'] ended with 'B'
C15_Witness ==
    /\ last_op.name = "get8"
    /\ last_op.arg[1] = USART_C0
    /\ ~crashed
    /\ ret_val = 66
    /\ io_mem.usart_input = << >>

\* the sequence s is a prefix of the sequence t
IsPrefix(s, t) == Len(s) <= Len(t) /\ SubSeq(t, 1, Len(s)) = s

\* C16: usart_output_log is append-only: a set8(0x08A0, v) appends exactly v,
\* printable or not, and changes nothing else; the instruction sts 0x08a0, r16
\* appends r16; after every call and every step the earlier log is a prefix of
\* the later one.
C16_OutputLogAppendOnly ==
    [][/\ IsPrefix(io_mem.usart_output_log, io_mem'.usart_output_log)
       /\ Calls("set8", USART_C0)
          => io_mem' = [io_mem EXCEPT !.usart_output_log =
                                         Append(io_mem.usart_output_log, last_op'.arg[2])]
       /\ last_op'.name = "step"
          => io_mem' = [io_mem EXCEPT !.usart_output_log =
                                         Append(io_mem.usart_output_log, io_mem.regs[16])]]_vars

\* 0xFF and then 'A' were written after 'B' and 0x07
C16_Witness ==
    /\ last_op.name = "set8"
    /\ last_op.arg[1] = USART_C0
    /\ io_mem.usart_output_log = <<66, 7, 255, 65>>

\* C17: a get8(0x0408) post-increments the RTC counter: it returns the low byte
\* of the counter held before the read and then adds 1000 modulo 65536, so the
\* n-th read since IOMemory::new returns the low byte of 1000 * (n - 1) mod
\* 65536, and never fails, the reads on which the counter wraps included.
C17_RtcPostIncrement ==
    [][Calls("get8", RTC_CNT)
          => /\ ~crashed'
             /\ ret_val' = io_mem.rtc_cnt % 256
             /\ ret_val' = ((1000 * rtc_reads) % 65536) % 256
             /\ io_mem' = [io_mem EXCEPT !.rtc_cnt = (io_mem.rtc_cnt + 1000) % 65536]]_vars

\* what the code does instead: the read adds 1000 first and returns the low byte
\* of the new counter, so the n-th read returns the low byte of 1000 * n; with
\* overflow checks the read that would pass 65535 panics.
C17_RtcPreIncrement ==
    [][Calls("get8", RTC_CNT)
          => IF overflow_checks /\ io_mem.rtc_cnt + 1000 > 65535
             THEN crashed' /\ io_mem' = io_mem
             ELSE /\ ~crashed'
                  /\ ret_val' = ((1000 * (rtc_reads + 1)) % 65536) % 256
                  /\ io_mem'.rtc_cnt = (io_mem.rtc_cnt + 1000) % 65536]_vars

\* the first read of the counter after IOMemory::new returned 0xE8
C17_FirstReadReturnsE8 ==
    /\ last_op.name = "get8"
    /\ last_op.arg[1] = RTC_CNT
    /\ rtc_reads = 1
    /\ ret_val = 232
    /\ io_mem.rtc_cnt = 1000

\* C18: get16(X) performs get8(X) before get8(X + 1) and combines the bytes
\* little-endian, and set16 writes X before X + 1; so get16(0x0408) returns the
\* two bytes of one observation of the RTC counter, and get16(0x08A0) consumes
\* the USART byte before the status at 0x08A1 is sampled.
C18_Read16LowByteFirst ==
    [][/\ \A a \in IOAddrs :
             Calls("get16", a) /\ ~crashed'
                => /\ io_mem' = get8(get8(io_mem, a).io, a + 1).io
                   /\ ret_val' = get8(get8(io_mem, a).io, a + 1).val * 256
                                     + get8(io_mem, a).val
       /\ Calls("get16", RTC_CNT) /\ ~crashed'
             => ret_val' \in {io_mem.rtc_cnt, io_mem'.rtc_cnt}
       /\ Calls("get16", USART_C0) /\ ~crashed'
             => ret_val' = Head(io_mem.usart_input)
                   + 256 * (32 + IF Tail(io_mem.usart_input) # << >> THEN 128 ELSE 0)
       /\ \A a \in IOAddrs :
             Calls("set16", a) /\ ~crashed'
                => io_mem' = set8(set8(io_mem, a, last_op'.arg[2] % 256),
                                  a + 1, last_op'.arg[2] \div 256)]_vars

\* what the code does instead: get16 performs get8(X + 1) before get8(X)
C18_Read16HighByteFirst ==
    [][\A a \in IOAddrs :
          Calls("get16", a) /\ ~crashed'
             => /\ io_mem' = get8(get8(io_mem, a + 1).io, a).io
                /\ ret_val' = get8(io_mem, a + 1).val * 256
                                  + get8(get8(io_mem, a + 1).io, a).val]_vars

\* get16(0x0408) on a fresh memory returned 0x00E8: the high byte of 0 and the
\* low byte of 1000
C18_TornRtcRead ==
    /\ last_op.name = "get16"
    /\ last_op.arg[1] = RTC_CNT
    /\ rtc_reads = 1
    /\ ret_val = 232
    /\ io_mem.rtc_cnt = 1000

\* the SRAM addresses of the memory map: 0x2000 to 0xFFFFFF
SramAddrs == {a \in IOAddrs : a >= 8192 /\ a <= 16777215}

\* C19: every address in 0x2000..0xFFFFFF is a plain byte cell: set8 changes that
\* cell and nothing else, a get8 after it returns the byte written, a get8
\* changes nothing and returns the cell, and no call faults, at 0x400000 and
\* above included.
C19_SramPlainCells ==
    [][\A a \in SramAddrs :
          /\ Calls("set8", a)
                => ~crashed' /\ io_mem' = raw_set8(io_mem, a, last_op'.arg[2])
          /\ Calls("set8;get8", a)
                => /\ ~crashed'
                   /\ io_mem' = raw_set8(io_mem, a, last_op'.arg[2])
                   /\ ret_val' = last_op'.arg[2]
          /\ Calls("get8", a)
                => ~crashed' /\ io_mem' = io_mem /\ ret_val' = raw_get8(io_mem, a)]_vars

\* what the code does instead: the cells below 0x400000 are plain cells, and
\* every access at 0x400000 or above panics
C19_SramBelowDataMemLen ==
    [][\A a \in SramAddrs :
          /\ Calls("set8", a) \/ Calls("set8;get8", a) \/ Calls("get8", a)
                => crashed' = (a >= DataMemLen)
          /\ Calls("set8;get8", a) /\ a < DataMemLen
                => /\ io_mem' = raw_set8(io_mem, a, last_op'.arg[2])
                   /\ ret_val' = last_op'.arg[2]]_vars

\* get8(0x400000) panicked
C19_ReadAt400000Panics ==
    /\ last_op.name = "get8"
    /\ last_op.arg[1] = 4194304
    /\ crashed

\* the addresses the memory map does not model: below 0x2000 and none of
\* 0x38..0x3F, 0x51, 0x401, 0x408, 0x409, 0x8A0, 0x8A1
UnmodelledAddrs ==
    {a \in IOAddrs : a < 8192 /\ a \notin (56 .. 63) \cup {81, 1025, 1032, 1033, 2208, 2209}}

\* C20: at every address outside the modelled regions get8 returns 0 and set8
\* is a no-op: neither changes registers, flags, SP, any memory cell, the USART
\* queues or the RTC counter, neither faults, and a get8 after a set8 still
\* returns 0.
C20_UnmodelledDefaults ==
    [][\A a \in UnmodelledAddrs :
          /\ Calls("get8", a) => ~crashed' /\ ret_val' = 0 /\ io_mem' = io_mem
          /\ Calls("set8", a) => ~crashed' /\ io_mem' = io_mem
          /\ Calls("set8;get8", a) => ~crashed' /\ ret_val' = 0 /\ io_mem' = io_mem]_vars

\* set8(0x1F, 0xA5) and then get8(0x1F) returned 0 and left the queued input,
\* and everything else, as it was
C20_Witness ==
    /\ last_op.name = "set8;get8"
    /\ last_op.arg = <<31, 165>>
    /\ ~crashed
    /\ ret_val = 0
    /\ io_mem = [IOMemory_new EXCEPT !.usart_input = <<65, 10>>]

-----------------------------------------------------------------------------
(* Claims about single instructions *)

\* the instruction at pc has no handler: an opcode do_opcode does not know, or
\* operands of a shape its arm does not take
NoHandlerAtPc ==
    /\ pc \in DOMAIN pmem_asm
    /\ \/ pmem_asm[pc].opcode = "break"
       \/ pmem_asm[pc].opcode = "ldi" /\ Kinds(pmem_asm[pc].operands) = <<"Reg", "Reg">>

\* the step aborted and left the machine as it was
Aborted ==
    /\ crashed'
    /\ UNCHANGED <<pc, insn_count, io_mem, skip_next_insn, call_stack>>

\* C21: whenever a step reaches an instruction without a handler it aborts, and
\* PC, the instruction counter, registers, flags and memory stay as they were;
\* no step passes over such an instruction.
C21_NoStepPastUnimplemented ==
    [][NoHandlerAtPc => Aborted]_vars

\* C21 as amended: a step that executes an instruction without a handler
\* aborts and leaves the machine as it was; a step that skips one, after a skip
\* instruction whose test held, passes over it like over any instruction.
C21_NoExecutionOfUnimplemented ==
    [][NoHandlerAtPc
          => IF skip_next_insn
             THEN /\ ~crashed'
                  /\ pc' = pc + pmem_asm[pc].len
                  /\ insn_count' = insn_count + 1
                  /\ ~skip_next_insn'
                  /\ UNCHANGED <<io_mem, call_stack>>
             ELSE Aborted]_vars

\* sbrs r16, 0 with r16 = 0 did not skip, and the step of `break` aborted
C21_Witness ==
    /\ crashed
    /\ last_op.name = "panic"
    /\ insn_count = 1
    /\ pc = 2
    /\ pmem_asm[0].opcode = "sbrs"
    /\ pmem_asm[2].opcode = "break"

\* the operands of the skip instruction at pc: the register tested, and the bit
\* number or the register compared with
SkipRr == io_mem.regs[pmem_asm[pc].operands[1][2]]
SkipArg == pmem_asm[pc].operands[2][2]

\* C25: sbrc Rr,b sets skip_next_insn to true iff bit b of Rr is 0, sbrs Rr,b iff
\* bit b of Rr is 1, cpse Rd,Rr iff Rd = Rr, whatever skip_next_insn was; they
\* change no register, flag or memory cell; and the instruction after them
\* executes exactly when the test was false: a skipped instruction changes
\* nothing and PC moves past it, an executed ldi r18, 1 loads 1.
C25_SkipInstructions ==
    [][/\ Executes({"sbrc"}) => skip_next_insn' = ((SkipRr \div (2 ^ SkipArg)) % 2 = 0)
       /\ Executes({"sbrs"}) => skip_next_insn' = ((SkipRr \div (2 ^ SkipArg)) % 2 = 1)
       /\ Executes({"cpse"}) => skip_next_insn' = (SkipRr = io_mem.regs[SkipArg])
       /\ Executes({"sbrc", "sbrs", "cpse"})
             => io_mem' = io_mem /\ pc' = pc + 2 /\ call_stack' = call_stack
       /\ last_op.opcode \in {"sbrc", "sbrs", "cpse"} /\ last_op'.name = "step"
             => IF skip_next_insn
                THEN /\ io_mem' = io_mem
                     /\ pc' = pc + pmem_asm[pc].len
                     /\ ~skip_next_insn'
                ELSE pmem_asm[pc].opcode = "ldi" => io_mem'.regs[18] = 1
       /\ last_op.opcode \in {"sbrc", "sbrs", "cpse"} /\ ~skip_next_insn
          /\ NoHandlerAtPc
             => crashed']_vars

\* cpse r16, r17 with both 0xA5 skipped the two words of lds r18, 0x2000
C25_Witness ==
    /\ insn_count = 2
    /\ pmem_asm[0].opcode = "cpse"
    /\ pmem_asm[2].opcode = "lds"
    /\ io_mem.regs[16] = 165
    /\ io_mem.regs[17] = 165
    /\ io_mem.regs[18] = 0
    /\ pc = 6
    /\ ~skip_next_insn

\* the machine after the instruction at pc, had it been eor r16, r16
AfterEor == do_arm(Emu, "eor", <<Reg(16), Reg(16)>>, pc + 2).m

\* the machine after the instruction at pc, had it been ldi r16, 0xFF
AfterLdiFF == do_arm(Emu, "ldi", <<Reg(16), Imm(255)>>, pc + 2).m

\* C27: clr Rd is equivalent to eor Rd,Rd and ser Rd to ldi Rd,0xFF: clr leaves
\* the registers and flags eor Rd,Rd leaves (Rd = 0, Z=1, N=0, V=0, S=0, and C,
\* H, T, I unchanged), and ser leaves those of ldi Rd,0xFF.
C27_ClrIsEor ==
    [][/\ Executes({"clr"})
          => /\ io_mem'.regs = AfterEor.io_mem.regs
             /\ io_mem'.sreg = AfterEor.io_mem.sreg
             /\ io_mem'.regs = [io_mem.regs EXCEPT ![16] = 0]
             /\ io_mem'.sreg = [io_mem.sreg EXCEPT !.z = TRUE, !.n = FALSE,
                                                   !.v = FALSE, !.s = FALSE]
       /\ Executes({"ser"})
          => /\ io_mem'.regs = AfterLdiFF.io_mem.regs
             /\ io_mem'.sreg = AfterLdiFF.io_mem.sreg]_vars

\* what the code does instead: clr clears the register and leaves every flag
\* as it was; eor Rd,Rd and ser are as claimed
C27_ClrKeepsFlags ==
    [][/\ Executes({"clr"})
          => io_mem' = [io_mem EXCEPT !.regs = [io_mem.regs EXCEPT ![16] = 0]]
       /\ Executes({"eor"})
          => /\ io_mem'.regs = [io_mem.regs EXCEPT ![16] = 0]
             /\ io_mem'.sreg = [io_mem.sreg EXCEPT !.z = TRUE, !.n = FALSE,
                                                   !.v = FALSE, !.s = FALSE]
       /\ Executes({"ser"})
          => io_mem' = [io_mem EXCEPT !.regs = [io_mem.regs EXCEPT ![16] = 255]]]_vars

\* clr r16 with r16 = 0xA5 and SREG = 0 left Z clear
C27_ClrLeftZClear ==
    /\ last_op.name = "step"
    /\ last_op.opcode = "clr"
    /\ io_mem.regs[16] = 0
    /\ ~io_mem.sreg.z
    /\ PackedFlags(io_mem.sreg) = 0

\* the predicate of each conditional branch on the current flags
BranchPredicate ==
    [breq |-> io_mem.sreg.z, brne |-> ~io_mem.sreg.z,
     brcc |-> ~io_mem.sreg.c, brcs |-> io_mem.sreg.c,
     brge |-> io_mem.sreg.n = io_mem.sreg.v, brlt |-> io_mem.sreg.n # io_mem.sreg.v,
     brmi |-> io_mem.sreg.n, brpl |-> ~io_mem.sreg.n,
     brtc |-> ~io_mem.sreg.t, brts |-> io_mem.sreg.t]

\* C29: a conditional branch at address 0 with operand .ofs sets PC to
\* 2 + ofs exactly when its predicate holds on the current flags and otherwise to
\* 2, and changes no register, flag, memory cell, SP or shadow frame.
C29_ConditionalBranches ==
    [][\A opcode \in BranchOpcodes, ofs \in {4, 0, -2} :
          /\ pmem_asm = load_disasm(Layout(<<Line(2, opcode, << <<".", ofs>> >>)>>, 1, 0))
          /\ pc = 0
          /\ last_op'.name \in {"step", "panic"}
          => /\ ~crashed'
             /\ pc' = IF BranchPredicate[opcode] THEN 2 + ofs ELSE 2
             /\ io_mem' = io_mem
             /\ call_stack' = call_stack
             /\ ~skip_next_insn']_vars

\* brlt .-2 with N set and V clear went back to address 0
C29_Witness ==
    /\ last_op.name = "step"
    /\ last_op.opcode = "brlt"
    /\ insn_count = 1
    /\ pc = 0
    /\ io_mem.sreg.n
    /\ ~io_mem.sreg.v

\* a step is taken with neg r16 at pc
StepsNeg ==
    /\ pc \in DOMAIN pmem_asm
    /\ pmem_asm[pc].opcode = "neg"
    /\ last_op'.name \in {"step", "panic"}

\* the result and the flags of neg r16 as the claim gives them
NegResult ==
    LET rd == io_mem.regs[16]
        r == (256 - rd) % 256
    IN  /\ io_mem'.regs = [io_mem.regs EXCEPT ![16] = r]
        /\ io_mem'.sreg = [io_mem.sreg EXCEPT
                              !.c = r # 0,
                              !.v = r = 128,
                              !.n = r >= 128,
                              !.z = r = 0,
                              !.s = (r >= 128) # (r = 128),
                              !.h = ((r \div 64) % 2 = 1) /\ ((rd \div 64) % 2 = 0)]
        /\ io_mem'.data_mem = io_mem.data_mem
        /\ pc' = pc + 2

\* C30: for every 8-bit Rd, 0x00 and 0x80 included, neg Rd completes without a
\* fault, writes R = (0 - Rd) mod 256 and sets C iff R # 0, V iff R = 0x80,
\* N = R7, Z iff R = 0, S = N xor V and H = R6 /\ ~Rd6.
C30_NegCompletes ==
    [][StepsNeg => ~crashed' /\ NegResult]_vars

\* what the code does instead: with overflow checks neg 0x80 panics on the
\* negation of the i8 -128; in every other case the result is as claimed
C30_NegUnlessOverflowCheck ==
    [][StepsNeg
          => IF overflow_checks /\ io_mem.regs[16] = 128
             THEN Aborted
             ELSE ~crashed' /\ NegResult]_vars

\* neg r16 with r16 = 0x80 panicked
C30_Neg80Panics ==
    /\ crashed
    /\ last_op.name = "panic"
    /\ pc = 0
    /\ pmem_asm[0].opcode = "neg"
    /\ io_mem.regs[16] = 128

\* a step is taken with a pre-decrement load (ld r16, -P) or store
\* (st -P, r17) at pc
StepsPreDecLoad ==
    /\ pc \in DOMAIN pmem_asm
    /\ pmem_asm[pc].opcode = "ld"
    /\ pmem_asm[pc].operands[2][5]
    /\ last_op'.name \in {"step", "panic"}
StepsPreDecStore ==
    /\ pc \in DOMAIN pmem_asm
    /\ pmem_asm[pc].opcode = "st"
    /\ pmem_asm[pc].operands[1][5]
    /\ last_op'.name \in {"step", "panic"}

\* the pair of the pointer register of the instruction at pc, its 24-bit value
\* and that value less one modulo 2^24
PtrReg ==
    IF pmem_asm[pc].opcode = "ld" THEN pmem_asm[pc].operands[2][2]
    ELSE pmem_asm[pc].operands[1][2]
PtrBase ==
    raw_get8(io_mem, RampOf(PtrReg)) * 65536 + io_mem.regs[PtrReg + 1] * 256
        + io_mem.regs[PtrReg]
PtrNewBase == (PtrBase + 16777215) % 16777216

\* memory io with the pointer register of the instruction at pc holding v
WithPtr(io, v) ==
    raw_set8([io EXCEPT !.regs = [@ EXCEPT ![PtrReg] = v % 256,
                                           ![PtrReg + 1] = (v \div 256) % 256]],
             RampOf(PtrReg), v \div 65536)

\* C26: a load or store with pre-decrement takes the new base (base - 1) mod
\* 2^24, accesses the byte at the new base (the displacement is 0) through get8
\* or set8 and writes the new base back, low 16 bits to the pair and high 8 bits
\* to RAMPx; it does not fault, and with base 0 the access is at 0xFFFFFF and the
\* base becomes 0xFFFFFF.
C26_PreDecrement ==
    [][/\ StepsPreDecLoad
          => /\ ~crashed'
             /\ io_mem' = WithPtr([io_mem EXCEPT !.regs[16] = get8(io_mem, PtrNewBase).val],
                                   PtrNewBase)
       /\ StepsPreDecStore
          => /\ ~crashed'
             /\ io_mem' = WithPtr(set8(io_mem, PtrNewBase, io_mem.regs[17]),
                                   PtrNewBase)]_vars

\* what the code does instead: with base 0 the u32 subtraction panics under
\* overflow checks, and otherwise wraps to 2^32 - 1, an address no arm of get8 or
\* set8 names, so that the load reads 0 and the store writes nothing, while the
\* pointer becomes 0xFFFFFF; with a new base of 0x400000 or more the access
\* panics; in every other case the instruction is as claimed.
C26_PreDecrementInDataMem ==
    [][/\ StepsPreDecLoad \/ StepsPreDecStore
          => crashed' = (\/ overflow_checks /\ PtrBase = 0
                         \/ PtrBase # 0 /\ PtrNewBase >= DataMemLen)
       /\ StepsPreDecLoad /\ ~crashed'
          => io_mem' = WithPtr([io_mem EXCEPT !.regs[16] =
                                   IF PtrBase = 0 THEN 0
                                   ELSE get8(io_mem, PtrNewBase).val],
                               PtrNewBase)
       /\ StepsPreDecStore /\ ~crashed'
          => io_mem' = WithPtr(IF PtrBase = 0 THEN io_mem
                               ELSE set8(io_mem, PtrNewBase, io_mem.regs[17]),
                               PtrNewBase)]_vars

\* st -X, r17 with X = 0 and r17 = 0xA5, without overflow checks, left
\* X = 0xFFFFFF and stored nothing
C26_StoreBelowZeroLost ==
    /\ last_op.name = "step"
    /\ last_op.opcode = "st"
    /\ pmem_asm[0].operands[1] = MemAccess(26, 0, FALSE, TRUE)
    /\ io_mem.regs[26] = 255 /\ io_mem.regs[27] = 255 /\ raw_get8(io_mem, RAMPX) = 255
    /\ \A a \in DOMAIN io_mem.data_mem : io_mem.data_mem[a] # 165 \/ a < 64

-----------------------------------------------------------------------------
(* Claims about register pairs and 24-bit pointers *)

\* the host call just made is `name`
Called(name) == last_op'.name = name

\* C22: for every even register index i in 0..30 and every 16-bit v, set16(i, v)
\* followed by get16(i) returns v, r[i] holding the low byte and r[i+1] the high
\* byte, and changes no other register (nor anything else); movw Rd,Rr copies
\* exactly the two bytes of the source pair.
C22_RegisterPairs ==
    [][/\ Called("regs.set16;get16") /\ last_op'.arg[1] % 2 = 0
          => LET i == last_op'.arg[1]
                 v == last_op'.arg[2]
             IN  /\ ~crashed'
                 /\ ret_val' = v
                 /\ io_mem' = [io_mem EXCEPT
                                  !.regs = [k \in 0 .. 31 |->
                                               IF k = i THEN v % 256
                                               ELSE IF k = i + 1 THEN v \div 256
                                               ELSE io_mem.regs[k]]]
       /\ Executes({"movw"})
          => LET d == pmem_asm[pc].operands[1][2]
                 r == pmem_asm[pc].operands[2][2]
             IN  io_mem' = [io_mem EXCEPT
                              !.regs = [k \in 0 .. 31 |->
                                           IF k = d THEN io_mem.regs[r]
                                           ELSE IF k = d + 1 THEN io_mem.regs[r + 1]
                                           ELSE io_mem.regs[k]]]]_vars

\* set16(30, 0x1234) and get16(30) returned 0x1234, with 0x34 in r30 and 0x12
\* in r31
C22_Witness ==
    /\ last_op.name = "regs.set16;get16"
    /\ last_op.arg = <<30, 4660>>
    /\ ret_val = 4660
    /\ io_mem.regs[30] = 52
    /\ io_mem.regs[31] = 18
    /\ io_mem.regs[29] # 0

\* the address of RAMPX, RAMPY, RAMPZ for the pairs 26, 28, 30
RampAddr == [r \in {26, 28, 30} |-> 57 + (r - 26) \div 2]

\* C28: for reg in {26, 28, 30} and every 24-bit v, set_full_reg(reg, v) followed
\* by get_full_reg(reg) returns v, the low 16 bits being in the pair and the high
\* 8 bits in the byte at 0x39, 0x3A, 0x3B; a later set8 to that address or a
\* later write of the pair is reflected by get_full_reg; get_full_reg and
\* set_full_reg on any other register index are fatal.
C28_FullPointers ==
    [][/\ \A name \in {"get_full_reg", "set_full_reg;get_full_reg",
                        "set_full_reg;set8;get_full_reg",
                        "set_full_reg;regs.set16;get_full_reg"} :
             Called(name) => crashed' = (last_op'.arg[1] \notin {26, 28, 30})
       /\ Called("get_full_reg") /\ ~crashed'
             => /\ ret_val' = raw_get8(io_mem, RampAddr[last_op'.arg[1]]) * 65536
                                 + io_mem.regs[last_op'.arg[1] + 1] * 256
                                 + io_mem.regs[last_op'.arg[1]]
                /\ io_mem' = io_mem
       /\ Called("set_full_reg;get_full_reg") /\ ~crashed'
             => LET reg == last_op'.arg[1]
                    v == last_op'.arg[2]
                IN  /\ ret_val' = v
                    /\ io_mem'.regs = [io_mem.regs EXCEPT ![reg] = v % 256,
                                                           ![reg + 1] = (v \div 256) % 256]
                    /\ io_mem' = raw_set8([io_mem EXCEPT !.regs = io_mem'.regs],
                                          RampAddr[reg], v \div 65536)
       /\ Called("set_full_reg;set8;get_full_reg") /\ ~crashed'
             => LET reg == last_op'.arg[1]
                    v == last_op'.arg[2]
                IN  ret_val' = (v % 65536)
                                  + 65536 * (IF last_op'.arg[3] = RampAddr[reg]
                                             THEN last_op'.arg[4] ELSE v \div 65536)
       /\ Called("set_full_reg;regs.set16;get_full_reg") /\ ~crashed'
             => ret_val' = (last_op'.arg[2] \div 65536) * 65536 + last_op'.arg[3]]_vars

\* set_full_reg(28, 0x123456), set8(0x3A, 0xA5) and get_full_reg(28) returned
\* 0xA53456
C28_Witness ==
    /\ last_op.name = "set_full_reg;set8;get_full_reg"
    /\ last_op.arg = <<28, 1193046, 58, 165>>
    /\ ret_val = 10826838
    /\ io_mem.regs[28] = 86
    /\ io_mem.regs[29] = 52
    /\ raw_get8(io_mem, 58) = 165

-----------------------------------------------------------------------------
(* Claims about the shadow call stack *)

\* shadow call stacks a second machine may hold instead: empty, one frame that
\* every return drops, one that no return drops, and two frames
OtherCallStacks ==
    { << >>, << <<0, 0, 2>> >>, << <<65535, 2, 0>> >>,
      << <<65535, 4, 2>>, <<8703, 0, 4>> >> }

\* what the two machines are compared on
Visible(m) == [pc |-> m.pc, io_mem |-> m.io_mem, skip_next_insn |-> m.skip_next_insn]

RECURSIVE AgreeFor(_, _, _, _, _)
\* machines a and b agree now and after each of the next k steps, and panic at
\* the same step if they panic
AgreeFor(a, b, prog, checks, k) ==
    /\ Visible(a) = Visible(b)
    /\ \/ k = 0
       \/ /\ step_panics(a, prog, checks) = step_panics(b, prog, checks)
          /\ \/ step_panics(a, prog, checks)
             \/ AgreeFor(step_result(a, prog), step_result(b, prog), prog, checks, k - 1)

\* C23: a machine that differs from this one only in the content of the shadow
\* call stack agrees with it on PC, registers, flags, I/O memory and
\* skip_next_insn after every number of steps.
C23_ShadowStackInformational ==
    \A cs \in OtherCallStacks :
        AgreeFor(Emu, [Emu EXCEPT !.call_stack = cs], pmem_asm, overflow_checks,
                 MaxInsns - insn_count)

\* a return has been executed that dropped the newest of two shadow frames and
\* kept the other
C23_Witness ==
    /\ last_op.name = "step"
    /\ last_op.opcode \in RetOpcodes
    /\ ~crashed
    /\ Len(call_stack) = 1
    /\ Len(frames) = 1

\* a RET or RETI has just been executed
Returned ==
    /\ last_op.name = "step"
    /\ last_op.opcode \in RetOpcodes
    /\ ~crashed

\* C24 as claimed: after every RET or RETI, no frame anywhere in the shadow call
\* stack has a recorded SP that is less than or equal to the current SP.
C24_NoFrameAtOrBelowSP ==
    Returned => \A k \in 1 .. Len(call_stack) : call_stack[k][1] > get_sp(io_mem)

\* what the loop of pop_ret_addr establishes: after every RET or RETI the newest
\* frame of the shadow call stack, if there is one, has a recorded SP above the
\* current SP.
C24_NewestFrameAboveSP ==
    Returned /\ call_stack # << >> => call_stack[Len(call_stack)][1] > get_sp(io_mem)

\* no return leaves a frame recorded at the current SP below a newer frame
\* recorded above it
C24_NoStaleFrameKept ==
    ~(/\ Returned
      /\ Len(call_stack) = 2
      /\ call_stack[1][1] = get_sp(io_mem)
      /\ call_stack[2][1] = get_sp(io_mem) + 1)

-----------------------------------------------------------------------------
(* Claims about the S flag and about reset *)

\* S = N xor V
SignIsNxorV(sreg) == sreg.s = (sreg.n # sreg.v)

\* the opcodes of the flag recipes: logical, shift, add, subtract, adiw/sbiw,
\* inc, dec, com, neg, mul
RecipeOpcodes ==
    {"and", "or", "eor", "andi", "ori", "lsr", "asr", "ror", "add", "adc", "sub",
     "sbc", "cp", "cpc", "subi", "sbci", "cpi", "adiw", "sbiw", "inc", "dec", "com",
     "neg", "mul"}

\* C31 as claimed: in every state reachable from reset by executing
\* instructions, S = N xor V.
C31_SignIsNxorV == SignIsNxorV(io_mem.sreg)

\* C31 as amended: every step that executes a flag recipe which assigns N or V
\* ends with S = N xor V, whatever the flags were; mul assigns none of N, V, S;
\* sen/cln, sev/clv, ses/cls assign their one flag and leave the other seven,
\* and a write to the SREG mirror assigns the eight flags from the byte written.
C31_RecipesSetSign ==
    [][/\ Executes(RecipeOpcodes \ {"mul"}) => SignIsNxorV(io_mem'.sreg)
       /\ Executes({"mul"}) =>
             /\ io_mem'.sreg.n = io_mem.sreg.n
             /\ io_mem'.sreg.v = io_mem.sreg.v
             /\ io_mem'.sreg.s = io_mem.sreg.s
       /\ \A o \in {"sen", "cln", "sev", "clv", "ses", "cls"} :
             Executes({o}) =>
                io_mem'.sreg = [io_mem.sreg EXCEPT
                                  ![CASE o \in {"sen", "cln"} -> "n"
                                      [] o \in {"sev", "clv"} -> "v"
                                      [] o \in {"ses", "cls"} -> "s"] =
                                      o \in {"sen", "sev", "ses"}]
       /\ Executes({"out", "sts"}) /\ pmem_asm[pc].operands[1][2] = SREG =>
             as_u8(io_mem'.sreg) = io_mem.regs[pmem_asm[pc].operands[2][2]]]_vars

\* a logical instruction has been executed from flags with S # N xor V, and has
\* set N and S
C31_Witness ==
    /\ last_op.name = "step"
    /\ last_op.opcode = "ori"
    /\ last_op.prev = "sev"
    /\ io_mem.sreg.n
    /\ io_mem.sreg.s
    /\ ~io_mem.sreg.v

\* no SEN is executed from the construction flags, which would set N and leave
\* V and S clear
C31_NoSenFromReset ==
    ~(/\ last_op.name = "step"
      /\ last_op.opcode = "sen"
      /\ io_mem.sreg.n
      /\ ~io_mem.sreg.v
      /\ ~io_mem.sreg.s)

\* C32: after any sequence of steps followed by reset, PC = 0, skip_next_insn is
\* false, the shadow call stack is empty, the instruction counter is 0, and all
\* registers, flags, SP, RAMPx/EIND, SRAM, the USART queues and the RTC counter
\* equal those of a freshly constructed machine, while the loaded program is
\* kept; reset applied twice equals reset applied once.
C32_ResetRestores ==
    [][last_op'.name = "reset" =>
          /\ pc' = 0
          /\ ~skip_next_insn'
          /\ call_stack' = << >>
          /\ insn_count' = 0
          /\ \A i \in 0 .. 31 : io_mem'.regs[i] = 0
          /\ as_u8(io_mem'.sreg) = 0
          /\ get_sp(io_mem') = 0
          /\ \A a \in {RAMPD, RAMPX, RAMPY, RAMPZ, EIND} \cup SRAM_START .. SRAM_START + 2
                      \cup 8701 .. 8703 :
                raw_get8(io_mem', a) = 0
          /\ io_mem'.usart_input = << >>
          /\ io_mem'.usart_output_log = << >>
          /\ io_mem'.rtc_cnt = 0
          /\ io_mem' = Emulator_new.io_mem
          /\ pmem_asm' = pmem_asm
          /\ last_op.name = "reset" => Emu' = Emu]_vars

\* reset has acted on a machine that was not in the construction state, and the
\* machine is in the construction state
C32_Witness ==
    /\ last_op.name = "reset"
    /\ last_op.arg = 1
    /\ Emu = Emulator_new
    /\ pmem_asm # << >>

====
